---- MODULE Spec2Model ----
(***************************************************************************)
(* Token / session / scan-counter core of the NFC profile backend.         *)
(*                                                                         *)
(* The public endpoint GET /api/p/:token (routes/secureProfileRoutes) is   *)
(* modelled as one process per request.  A request suspends only at its    *)
(* awaits; every action below is "one I/O completes and the synchronous    *)
(* code after it runs up to the next await".  Spec interleaves requests at *)
(* those points; SeqSpec runs one operation at a time.                     *)
(*                                                                         *)
(* Time is a discrete clock `now`; TicksPerHour clock ticks make one hour. *)
(* Dates are numbers of ticks, an absent Date is NoDate.                   *)
(***************************************************************************)
EXTENDS Integers, Sequences, FiniteSets, TLC

\* ------------------------------------------------------------ bounds
NumReq == 2
MaxTime == 2
TicksPerHour == 1
MaxHours == 1
\* recordScan calls made beyond the history cap in ScanSpec
MaxExtraScans == 2
\* user-agent strings of UaSpec are made of up to MaxUaWords pieces
MaxUaWords == 2
\* milliseconds per clock tick in OtpSpec
OtpTickMs == 600000
\* milliseconds per clock tick in the session specifications
TickMs == 1500

\* ------------------------------------------------- program constants
ScanHistoryCap == 50
\* createTemporaryToken(id, entityType = 'student', hoursValid = 24)
DefaultHoursValid == 24
OTP_EXPIRY_MS == 600000
NoDate == -1

Reqs == 1..NumReq
HoursValid == 0..MaxHours

TokenStrs == {"tokA", "tokB"}
\* the strings generateToken() draws in Spec and SeqSpec
IssuedStrs == {"tokA"}
StudentIds == {"SL1-01"}
ArtistIds == {"AT-01"}
EntityIds == StudentIds \cup ArtistIds
NoIp == "undefined"
\* (req.ip || remoteAddress, user-agent header || 'Unknown') of the callers
Clients == {[ipAddress |-> NoIp, userAgent |-> "Unknown"],
            [ipAddress |-> "10.0.0.7", userAgent |-> "Mozilla/5.0"]}
NoId == "undefined"
\* keys of the OTP Map, and the value of a key that is not in it
OtpKeys == {"a@x.io", "b@x.io"}
NoEntry == [null |-> TRUE]
NoDoc == [null |-> TRUE]
NoResp == [null |-> TRUE]

VARIABLES now, tokens, students, artists, sessions, io, emitted,
          pc, req, tdoc, dirty, edoc, histOp, sdoc, resp,
          otpStore, otpCall

vars == <<now, tokens, students, artists, sessions, io, emitted,
          pc, req, tdoc, dirty, edoc, histOp, sdoc, resp, otpStore, otpCall>>

store == <<tokens, students, artists, sessions, emitted>>
\* the OTP module's Map and the latest call of one of its functions
otpVars == <<otpStore, otpCall>>
procs == <<pc, req, tdoc, dirty, edoc, histOp, sdoc, resp>>

\* ------------------------------------------------------ entity documents
EntityTypeOfId(id) == IF id \in ArtistIds THEN "artist" ELSE "student"

ObjectIdOf(id) == IF id = "SL1-01" THEN "65f0c0ffee000000000000a1"
                  ELSE "65f0c0ffee000000000000b2"

NewStudent(id) ==
    [_id |-> ObjectIdOf(id), studentId |-> id, name |-> "Asha",
     rollNumber |-> "R-17", class |-> "5A", school |-> "Springfield",
     scanCount |-> 0, lastScanned |-> NoDate, scanHistory |-> <<>>,
     isActive |-> TRUE, v |-> 0]

\* pre('validate'): an artist created without a code gets code = artistId
ArtistCode(artistId, given) == IF given = "" THEN artistId ELSE given

NewArtist(id) ==
    [_id |-> ObjectIdOf(id), artistId |-> id, name |-> "New Artist",
     code |-> ArtistCode(id, ""), specialization |-> "",
     scanCount |-> 0, lastScanned |-> NoDate, isActive |-> TRUE]

\* ------------------------------------------------------ token documents
\* Schema defaults of an AccessToken document.
TokenDefaults(tok) ==
    [token |-> tok, studentId |-> NoId, artistId |-> NoId,
     entityType |-> "student", type |-> "permanent",
     isUsed |-> FALSE, usedAt |-> NoDate, expiresAt |-> NoDate,
     ipAddress |-> NoIp, userAgent |-> "undefined",
     accessCount |-> 0, lastAccessedAt |-> NoDate,
     createdBy |-> "system", notes |-> "", hoursValid |-> 0]

Stored == {t \in TokenStrs : tokens[t] # NoDoc}

\* What Model.create throws: validation (the enum of entityType) runs
\* first, then the insert meets the unique index on token.
CreateError(doc) ==
    IF doc.entityType \notin {"student", "artist"} THEN "ValidationError"
    ELSE IF doc.token \in Stored THEN "E11000 duplicate key"
    ELSE "ok"

\* Mutant: documents are inserted without validation.
Create_NoValidation(doc) ==
    /\ doc.token \notin Stored
    /\ tokens' = [tokens EXCEPT ![doc.token] = doc]

\* Model.create: the document is stored unless create throws.
Create(doc) ==
    /\ CreateError(doc) = "ok"
    /\ tokens' = [tokens EXCEPT ![doc.token] = doc]

PermanentDoc(tok, studentId) ==
    [TokenDefaults(tok) EXCEPT !.studentId = studentId, !.type = "permanent",
                               !.notes = "NFC Tag Token", !.createdBy = "admin"]

ArtistPermanentDoc(tok, artistId) ==
    [TokenDefaults(tok) EXCEPT !.artistId = artistId, !.entityType = "artist",
                               !.type = "permanent",
                               !.notes = "Artist NFC Tag Token",
                               !.createdBy = "admin"]

\* Mutant: hoursValid || 24, which turns 0 hours into the default.
ExpiresAt_ZeroIsDefault(created, hoursValid) ==
    created + (IF hoursValid = 0 THEN 24 ELSE hoursValid) * TicksPerHour

\* expiresAt.setHours(expiresAt.getHours() + hoursValid)
ExpiresAt(created, hoursValid) == created + hoursValid * TicksPerHour

TemporaryDoc(tok, id, entityType, hoursValid) ==
    LET base == [TokenDefaults(tok) EXCEPT
                    !.entityType = entityType, !.type = "temporary",
                    !.expiresAt = ExpiresAt(now, hoursValid),
                    !.notes = "Temporary access", !.hoursValid = hoursValid,
                    !.createdBy = "system"]
    IN  IF entityType = "student" THEN [base EXCEPT !.studentId = id]
        ELSE [base EXCEPT !.artistId = id]

OneTimeDoc(tok, studentId) ==
    [TokenDefaults(tok) EXCEPT !.studentId = studentId, !.type = "one-time",
                               !.notes = "One-time access token",
                               !.createdBy = "system"]

\* The identifier a token document carries, and the entity it is meant for.
TokenRefId(doc) == IF doc.artistId # NoId THEN doc.artistId ELSE doc.studentId

Idle == \A r \in Reqs : pc[r] \in {"idle", "done"}

CreatePermanentToken(tok, studentId) ==
    /\ Create(PermanentDoc(tok, studentId))
    /\ UNCHANGED <<otpVars, now, students, artists, sessions, io, emitted, procs>>

CreateArtistPermanentToken(tok, artistId) ==
    /\ Create(ArtistPermanentDoc(tok, artistId))
    /\ UNCHANGED <<otpVars, now, students, artists, sessions, io, emitted, procs>>

CreateTemporaryToken(tok, id, entityType, hoursValid) ==
    /\ Create(TemporaryDoc(tok, id, entityType, hoursValid))
    /\ UNCHANGED <<otpVars, now, students, artists, sessions, io, emitted, procs>>

CreateOneTimeToken(tok, studentId) ==
    /\ Create(OneTimeDoc(tok, studentId))
    /\ UNCHANGED <<otpVars, now, students, artists, sessions, io, emitted, procs>>

\* accessToken.revoke(): deleteOne
Revoke(tok) ==
    /\ tok \in Stored
    /\ tokens' = [tokens EXCEPT ![tok] = NoDoc]
    /\ UNCHANGED <<otpVars, now, students, artists, sessions, io, emitted, procs>>

\* Mutant: the purge compares expiresAt without asking whether it is set.
TtlPurge_AnyKind(tok) ==
    /\ tokens[tok] # NoDoc
    /\ tokens[tok].expiresAt < now
    /\ tokens' = [tokens EXCEPT ![tok] = NoDoc]
    /\ UNCHANGED <<otpVars, now, students, artists, sessions, io, emitted, procs>>

\* index({expiresAt: 1}, {expireAfterSeconds: 0}): the database's expiry
\* pass deletes a document whose expiresAt is a date that has passed; a
\* document without expiresAt is not in the index's range.
TtlPurge(tok) ==
    /\ tokens[tok] # NoDoc
    /\ tokens[tok].expiresAt # NoDate
    /\ tokens[tok].expiresAt < now
    /\ tokens' = [tokens EXCEPT ![tok] = NoDoc]
    /\ UNCHANGED <<otpVars, now, students, artists, sessions, io, emitted, procs>>

\* ------------------------------------------------- admin entity routes
\* DELETE /api/admin/students/:id : Student.findOneAndDelete
DeleteStudent(id) ==
    /\ students[id] # NoDoc
    /\ students' = [students EXCEPT ![id] = NoDoc]
    /\ UNCHANGED <<otpVars, now, tokens, artists, sessions, io, emitted, procs>>

\* DELETE /api/artist/:id : findByIdAndUpdate(id, {isActive: false})
DeactivateArtist(id) ==
    /\ artists[id].isActive
    /\ artists' = [artists EXCEPT ![id].isActive = FALSE]
    /\ UNCHANGED <<otpVars, now, tokens, students, sessions, io, emitted, procs>>

\* POST /api/admin/students/:id/toggle-status : findOne, then save() of
\* the flipped isActive, one admin at a time.
ToggleStudentStatus(id) ==
    /\ students[id] # NoDoc
    /\ students' = [students EXCEPT ![id].isActive = ~@]
    /\ UNCHANGED <<otpVars, now, tokens, artists, sessions, io, emitted, procs>>

\* ------------------------------------------------------- verifyAndUse
\* Mutant: isValid() without the expiry test.
IsValid_IgnoresExpiry(doc, t) ==
    IF doc.type = "one-time" /\ doc.isUsed THEN FALSE ELSE TRUE

\* accessToken.isValid()
IsValid(doc, t) ==
    IF doc.type = "one-time" /\ doc.isUsed THEN FALSE
    ELSE IF doc.type = "temporary" /\ doc.expiresAt < t THEN FALSE
    ELSE TRUE

\* Mutant: a token whose student is deleted or disabled is refused.
Verdict_EntityAware(doc, t) ==
    IF doc = NoDoc THEN "Invalid token"
    ELSE IF doc.type = "one-time" /\ doc.isUsed
         THEN "Token has already been used"
    ELSE IF doc.type = "temporary" /\ doc.expiresAt < t
         THEN "Token has expired"
    ELSE IF /\ doc.entityType = "student"
            /\ \/ students[doc.studentId] = NoDoc
               \/ ~students[doc.studentId].isActive
         THEN "Invalid token"
    ELSE "ok"

\* Mutant: the used check is dropped.
Verdict_NoUsedCheck(doc, t) ==
    IF doc = NoDoc THEN "Invalid token"
    ELSE IF doc.type = "temporary" /\ doc.expiresAt < t
         THEN "Token has expired"
    ELSE "ok"

\* Mutant: the used check does not look at the token's type.
Verdict_UsedAnyType(doc, t) ==
    IF doc = NoDoc THEN "Invalid token"
    ELSE IF doc.isUsed THEN "Token has already been used"
    ELSE IF doc.type = "temporary" /\ doc.expiresAt < t
         THEN "Token has expired"
    ELSE "ok"

\* Mutant: expiresAt <= now, the token is dead at its expiry instant.
Verdict_ExpiresInclusive(doc, t) ==
    IF doc = NoDoc THEN "Invalid token"
    ELSE IF doc.type = "one-time" /\ doc.isUsed
         THEN "Token has already been used"
    ELSE IF doc.type = "temporary" /\ doc.expiresAt <= t
         THEN "Token has expired"
    ELSE "ok"

\* The checks of verifyAndUse on the document findOne returned, at time t:
\* the message of the Error thrown, or "ok".
Verdict(doc, t) ==
    IF doc = NoDoc THEN "Invalid token"
    ELSE IF doc.type = "one-time" /\ doc.isUsed
         THEN "Token has already been used"
    ELSE IF doc.type = "temporary" /\ doc.expiresAt < t
         THEN "Token has expired"
    ELSE "ok"

\* Mutant: every kind of token is marked used.
UseToken_MarkAll(doc, ipAddress, userAgent, t) ==
    [doc EXCEPT !.accessCount = @ + 1, !.lastAccessedAt = t,
                !.ipAddress = IF ipAddress # NoIp THEN ipAddress ELSE @,
                !.userAgent = IF userAgent # "" THEN userAgent ELSE @,
                !.isUsed = TRUE, !.usedAt = t]

\* Mutant: accessCount is not incremented.
UseToken_NoCount(doc, ipAddress, userAgent, t) ==
    LET d1 == [doc EXCEPT !.lastAccessedAt = t]
        d2 == IF ipAddress # NoIp THEN [d1 EXCEPT !.ipAddress = ipAddress]
              ELSE d1
        d3 == IF userAgent # "" THEN [d2 EXCEPT !.userAgent = userAgent]
              ELSE d2
    IN  IF doc.type = "one-time"
        THEN [d3 EXCEPT !.isUsed = TRUE, !.usedAt = t]
        ELSE d3

\* The in-memory update of a valid token document.
UseToken(doc, ipAddress, userAgent, t) ==
    LET d1 == [doc EXCEPT !.accessCount = @ + 1, !.lastAccessedAt = t]
        d2 == IF ipAddress # NoIp THEN [d1 EXCEPT !.ipAddress = ipAddress]
              ELSE d1
        d3 == IF userAgent # "" THEN [d2 EXCEPT !.userAgent = userAgent]
              ELSE d2
    IN  IF doc.type = "one-time"
        THEN [d3 EXCEPT !.isUsed = TRUE, !.usedAt = t]
        ELSE d3

\* The paths a document's save() writes: those whose value was changed.
ModifiedPaths(read, local) == {f \in DOMAIN read : local[f] # read[f]}

\* save(): updateOne({_id}, {$set: modified paths}) on the stored document.
SaveDoc(stored, local, paths) ==
    [f \in DOMAIN stored |-> IF f \in paths THEN local[f] ELSE stored[f]]

\* ----------------------------------------------------------- responses
\* The inner catch of the route: 403 with the thrown error's message.
TokenFailureResponse(errMessage) ==
    [status |-> 403, success |-> FALSE,
     message |-> IF errMessage = "" THEN "Invalid or expired access token"
                 ELSE errMessage]

NotFoundResponse(entityType) ==
    [status |-> 404, success |-> FALSE,
     message |-> IF entityType = "artist"
                 THEN "Artist profile not found or inactive"
                 ELSE "Student profile not found or inactive"]

ServerErrorResponse ==
    [status |-> 500, success |-> FALSE,
     message |-> "Server error while fetching profile"]

ArtistProfile(artist) ==
    [type |-> "artist", name |-> artist.name, code |-> artist.code,
     specialization |-> artist.specialization,
     scanCount |-> artist.scanCount, lastScanned |-> artist.lastScanned]

StudentProfile(student) ==
    [type |-> "student", name |-> student.name,
     rollNumber |-> student.rollNumber, class |-> student.class,
     school |-> student.school,
     scanCount |-> student.scanCount, lastScanned |-> student.lastScanned]

ProfileData(entityType, entity) ==
    IF entityType = "artist" THEN ArtistProfile(entity)
    ELSE StudentProfile(entity)

SuccessResponse(sessionId, profileData) ==
    [status |-> 200, success |-> TRUE, sessionId |-> sessionId,
     data |-> profileData]

\* ----------------------------------------------------------- recordScan
\* Mutant: the cap is tested with > instead of >=.
StudentRecordScan_EvictLate(student, ipAddress, userAgent, t) ==
    LET hist == IF Len(student.scanHistory) > ScanHistoryCap
                THEN Tail(student.scanHistory) ELSE student.scanHistory
    IN  [student EXCEPT
            !.scanCount = @ + 1, !.lastScanned = t,
            !.scanHistory = Append(hist, [scannedAt |-> t,
                                          ipAddress |-> ipAddress,
                                          userAgent |-> userAgent])]

StudentRecordScan(student, ipAddress, userAgent, t) ==
    LET hist == IF Len(student.scanHistory) >= ScanHistoryCap
                THEN Tail(student.scanHistory) ELSE student.scanHistory
    IN  [student EXCEPT
            !.scanCount = @ + 1, !.lastScanned = t,
            !.scanHistory = Append(hist, [scannedAt |-> t,
                                          ipAddress |-> ipAddress,
                                          userAgent |-> userAgent])]

ArtistRecordScan(artist, t) ==
    [artist EXCEPT !.scanCount = @ + 1, !.lastScanned = t]

\* scanHistory.shift() makes save() rewrite the whole array ($set, guarded
\* by the version key); push alone is sent as $push.
Shifted(read) == Len(read.scanHistory) >= ScanHistoryCap

\* ------------------------------------------------------------- session
SessionIdOf(r) == "SESSION-" \o ToString(r)

\* String.prototype.toLowerCase, character by character.
LowerOf(c) ==
    CASE c = "A" -> "a" []
         c = "B" -> "b" []
         c = "C" -> "c" []
         c = "D" -> "d" []
         c = "E" -> "e" []
         c = "F" -> "f" []
         c = "G" -> "g" []
         c = "H" -> "h" []
         c = "I" -> "i" []
         c = "J" -> "j" []
         c = "K" -> "k" []
         c = "L" -> "l" []
         c = "M" -> "m" []
         c = "N" -> "n" []
         c = "O" -> "o" []
         c = "P" -> "p" []
         c = "Q" -> "q" []
         c = "R" -> "r" []
         c = "S" -> "s" []
         c = "T" -> "t" []
         c = "U" -> "u" []
         c = "V" -> "v" []
         c = "W" -> "w" []
         c = "X" -> "x" []
         c = "Y" -> "y" []
         c = "Z" -> "z" []
         OTHER -> c

RECURSIVE ToLowerCase(_)
ToLowerCase(str) ==
    IF Len(str) = 0 THEN ""
    ELSE LowerOf(SubSeq(str, 1, 1)) \o ToLowerCase(SubSeq(str, 2, Len(str)))

\* String.prototype.includes
Includes(str, key) ==
    \E i \in 1..(Len(str) - Len(key) + 1) :
        SubSeq(str, i, i + Len(key) - 1) = key

\* Mutant: the browser checks look for safari before chrome.
ParseUserAgent_SafariFirst(userAgent) ==
    LET ua == ToLowerCase(userAgent)
        has(k) == Includes(ua, k)
    IN  [deviceType |->
            IF has("mobile") \/ has("android") THEN "mobile"
            ELSE IF has("tablet") \/ has("ipad") THEN "tablet"
            ELSE IF has("mozilla") \/ has("chrome") \/ has("safari")
                 THEN "desktop"
            ELSE "unknown",
         browser |->
            IF has("safari") THEN "Safari"
            ELSE IF has("chrome") THEN "Chrome"
            ELSE IF has("firefox") THEN "Firefox"
            ELSE IF has("edge") THEN "Edge"
            ELSE IF has("opera") THEN "Opera"
            ELSE "Unknown",
         os |->
            IF has("windows") THEN "Windows"
            ELSE IF has("mac") THEN "macOS"
            ELSE IF has("linux") THEN "Linux"
            ELSE IF has("android") THEN "Android"
            ELSE IF has("ios") \/ has("iphone") \/ has("ipad") THEN "iOS"
            ELSE "Unknown"]

\* parseUserAgent: deviceType, browser and os of a user-agent string.
ParseUserAgent(userAgent) ==
    LET ua == ToLowerCase(userAgent)
        has(k) == Includes(ua, k)
    IN  [deviceType |->
            IF has("mobile") \/ has("android") THEN "mobile"
            ELSE IF has("tablet") \/ has("ipad") THEN "tablet"
            ELSE IF has("mozilla") \/ has("chrome") \/ has("safari")
                 THEN "desktop"
            ELSE "unknown",
         browser |->
            IF has("chrome") THEN "Chrome"
            ELSE IF has("firefox") THEN "Firefox"
            ELSE IF has("safari") THEN "Safari"
            ELSE IF has("edge") THEN "Edge"
            ELSE IF has("opera") THEN "Opera"
            ELSE "Unknown",
         os |->
            IF has("windows") THEN "Windows"
            ELSE IF has("mac") THEN "macOS"
            ELSE IF has("linux") THEN "Linux"
            ELSE IF has("android") THEN "Android"
            ELSE IF has("ios") \/ has("iphone") \/ has("ipad") THEN "iOS"
            ELSE "Unknown"]

\* new Session(sessionData) as its save() sends it: schema defaults applied
\* and, the document being new, pre('save') has run parseUserAgent.
NewSession(r, entityType, entityId, ipAddress, userAgent, t) ==
    [sessionId |-> SessionIdOf(r),
     studentId |-> IF entityType = "artist" THEN NoId ELSE entityId,
     artistId |-> IF entityType = "artist" THEN entityId ELSE NoId,
     ipAddress |-> IF ipAddress = NoIp THEN "0.0.0.0" ELSE ipAddress,
     userAgent |-> userAgent, referrer |-> "Direct",
     startTime |-> t, endTime |-> NoDate, duration |-> 0,
     isActive |-> TRUE, pageViews |-> 1, actions |-> <<>>,
     deviceType |-> ParseUserAgent(userAgent).deviceType,
     browser |-> ParseUserAgent(userAgent).browser,
     os |-> ParseUserAgent(userAgent).os]

ScanEvent(entityType, entityId, profileData, session) ==
    [event |-> IF entityType = "artist" THEN "artist:scanned"
               ELSE "student:scanned",
     entityId |-> entityId, name |-> profileData.name,
     scanCount |-> profileData.scanCount, sessionId |-> session.sessionId]

\* ------------------------------------------------ GET /api/p/:token
\* The handler's local documents of request r.
Locals(r, t, d, e, h, s) ==
    /\ tdoc' = [tdoc EXCEPT ![r] = t]
    /\ dirty' = [dirty EXCEPT ![r] = d]
    /\ edoc' = [edoc EXCEPT ![r] = e]
    /\ histOp' = [histOp EXCEPT ![r] = h]
    /\ sdoc' = [sdoc EXCEPT ![r] = s]

\* res.json(...): the handler returns and its locals are gone.
Finish(r, response) ==
    /\ resp' = [resp EXCEPT ![r] = response]
    /\ pc' = [pc EXCEPT ![r] = "done"]
    /\ Locals(r, NoDoc, {}, NoDoc, "none", NoDoc)

Goto(r, label) ==
    /\ pc' = [pc EXCEPT ![r] = label]
    /\ UNCHANGED resp

\* The request arrives; the handler runs up to await findOne({token}).
\* Requests are numbered in their order of arrival.
GetStart(r, tok, ipAddress, userAgent) ==
    /\ pc[r] = "idle"
    /\ \A q \in Reqs : q < r => pc[q] # "idle"
    /\ req' = [req EXCEPT ![r] = [token |-> tok, ipAddress |-> ipAddress,
                                  userAgent |-> userAgent]]
    /\ Goto(r, "findOne")
    /\ UNCHANGED <<otpVars, now, store, io, tdoc, dirty, edoc, histOp, sdoc>>

\* Mutant: a refused attempt on a stored token is counted on its record.
VerifyFindOne_CountRefused(r) ==
    /\ pc[r] = "findOne"
    /\ LET doc == tokens[req[r].token]
           verdict == Verdict(doc, now)
           used == UseToken(doc, req[r].ipAddress, req[r].userAgent, now)
       IN  IF verdict # "ok"
           THEN /\ Finish(r, TokenFailureResponse(verdict))
                /\ tokens' = IF doc = NoDoc THEN tokens
                             ELSE [tokens EXCEPT
                                      ![req[r].token].accessCount = @ + 1]
           ELSE /\ Locals(r, used, ModifiedPaths(doc, used),
                          NoDoc, "none", NoDoc)
                /\ Goto(r, "save")
                /\ UNCHANGED tokens
    /\ UNCHANGED <<otpVars, now, students, artists, sessions, emitted, io, req>>

\* findOne returns; verifyAndUse checks the document and either throws
\* (the route answers 403) or updates it in memory and awaits save().
VerifyFindOne(r) ==
    /\ pc[r] = "findOne"
    /\ LET doc == tokens[req[r].token]
           verdict == Verdict(doc, now)
           used == UseToken(doc, req[r].ipAddress, req[r].userAgent, now)
       IN  IF verdict # "ok"
           THEN Finish(r, TokenFailureResponse(verdict))
           ELSE /\ Locals(r, used, ModifiedPaths(doc, used),
                          NoDoc, "none", NoDoc)
                /\ Goto(r, "save")
    /\ UNCHANGED <<otpVars, now, store, io, req>>

\* save() completes.  A document deleted meanwhile makes save() throw
\* DocumentNotFoundError, which the route's inner catch turns into a 403.
\* Mutant: the save of a document that is gone writes it back.
VerifySave_Upsert(r) ==
    /\ pc[r] = "save"
    /\ tokens' = [tokens EXCEPT
                     ![req[r].token] =
                         IF tokens[req[r].token] = NoDoc THEN tdoc[r]
                         ELSE SaveDoc(tokens[req[r].token], tdoc[r], dirty[r])]
    /\ Goto(r, "entity")
    /\ UNCHANGED <<tdoc, dirty, edoc, histOp, sdoc>>
    /\ UNCHANGED <<otpVars, now, students, artists, sessions, emitted, io, req>>

\* Otherwise verifyAndUse returns and the route awaits the entity lookup.
VerifySave(r) ==
    /\ pc[r] = "save"
    /\ LET tok == req[r].token
       IN  IF tokens[tok] = NoDoc
           THEN /\ Finish(r, TokenFailureResponse("No document found for query"))
                /\ UNCHANGED tokens
           ELSE /\ tokens' = [tokens EXCEPT
                                ![tok] = SaveDoc(tokens[tok], tdoc[r], dirty[r])]
                /\ Goto(r, "entity")
                /\ UNCHANGED <<tdoc, dirty, edoc, histOp, sdoc>>
    /\ UNCHANGED <<otpVars, now, students, artists, sessions, emitted, io, req>>

\* Mutant: the lookup does not filter on isActive.
FindEntity_IgnoreActive(entityType, id) ==
    IF entityType = "artist"
    THEN IF id \in ArtistIds THEN artists[id] ELSE NoDoc
    ELSE IF id \in StudentIds /\ students[id] # NoDoc
         THEN students[id] ELSE NoDoc

\* Artist.findOne / Student.findOne({..., isActive: true})
FindEntity(entityType, id) ==
    IF entityType = "artist"
    THEN IF id \in ArtistIds /\ artists[id].isActive THEN artists[id] ELSE NoDoc
    ELSE IF id \in StudentIds /\ students[id] # NoDoc /\ students[id].isActive
         THEN students[id] ELSE NoDoc

\* The entity lookup returns; a miss answers 404, a hit runs recordScan up
\* to its save().
EntityFindOne(r) ==
    /\ pc[r] = "entity"
    /\ LET ty == tdoc[r].entityType
           id == IF ty = "artist" THEN tdoc[r].artistId ELSE tdoc[r].studentId
           found == FindEntity(ty, id)
       IN  IF found = NoDoc
           THEN Finish(r, NotFoundResponse(ty))
           ELSE /\ Locals(r, tdoc[r], dirty[r],
                          IF ty = "artist" THEN ArtistRecordScan(found, now)
                          ELSE StudentRecordScan(found, req[r].ipAddress,
                                                 req[r].userAgent, now),
                          IF ty = "artist" THEN "none"
                          ELSE IF Shifted(found) THEN "$set" ELSE "$push",
                          NoDoc)
                /\ Goto(r, "scanSave")
    /\ UNCHANGED <<otpVars, now, store, io, req>>

\* What the entity's save() leaves in the store, or NoDoc when it throws
\* (document deleted: DocumentNotFoundError; stale version: VersionError).
SavedArtist(stored, local) ==
    [stored EXCEPT !.scanCount = local.scanCount,
                   !.lastScanned = local.lastScanned]

SavedStudent(stored, local, op) ==
    IF stored = NoDoc THEN NoDoc
    ELSE IF op = "$set" /\ stored.v # local.v THEN NoDoc
    ELSE [stored EXCEPT
            !.scanCount = local.scanCount,
            !.lastScanned = local.lastScanned,
            !.scanHistory =
                IF op = "$set" THEN local.scanHistory
                ELSE Append(stored.scanHistory,
                            local.scanHistory[Len(local.scanHistory)]),
            !.v = @ + 1]

\* recordScan's save() completes.  If it throws, the route's outer catch
\* answers 500; otherwise the route builds the profile, constructs the
\* Session and awaits session.save().
ScanSave(r) ==
    /\ pc[r] = "scanSave"
    /\ LET ty == tdoc[r].entityType
           id == IF ty = "artist" THEN edoc[r].artistId ELSE edoc[r].studentId
           saved == IF ty = "artist" THEN SavedArtist(artists[id], edoc[r])
                    ELSE SavedStudent(students[id], edoc[r], histOp[r])
       IN  IF saved = NoDoc
           THEN /\ Finish(r, ServerErrorResponse)
                /\ UNCHANGED <<students, artists>>
           ELSE /\ IF ty = "artist"
                   THEN /\ artists' = [artists EXCEPT ![id] = saved]
                        /\ UNCHANGED students
                   ELSE /\ students' = [students EXCEPT ![id] = saved]
                        /\ UNCHANGED artists
                /\ Locals(r, tdoc[r], dirty[r], edoc[r], histOp[r],
                          NewSession(r, ty, id, req[r].ipAddress,
                                     req[r].userAgent, now))
                /\ Goto(r, "sessionSave")
    /\ UNCHANGED <<otpVars, now, tokens, sessions, emitted, io, req>>

\* The store rejects recordScan's write (connection lost, validation).
ScanSaveFail(r) ==
    /\ pc[r] = "scanSave"
    /\ Finish(r, ServerErrorResponse)
    /\ UNCHANGED <<otpVars, now, store, io, req>>

\* Mutant: the route answers before the session is persisted.
SessionSave_RespondFirst(r) ==
    /\ pc[r] = "sessionSave"
    /\ Finish(r, SuccessResponse(sdoc[r].sessionId,
                                 ProfileData(tdoc[r].entityType, edoc[r])))
    /\ UNCHANGED <<otpVars, now, store, io, req>>

\* session.save() completes; the route broadcasts the scan when a socket
\* server is configured and answers with the profile.
SessionSave(r) ==
    /\ pc[r] = "sessionSave"
    /\ LET ty == tdoc[r].entityType
           id == IF ty = "artist" THEN edoc[r].artistId ELSE edoc[r].studentId
           profileData == ProfileData(ty, edoc[r])
       IN  /\ sessions' = sessions \cup {sdoc[r]}
           /\ emitted' = IF io = "null" THEN emitted
                         ELSE emitted \cup
                              {ScanEvent(ty, id, profileData, sdoc[r])}
           /\ Finish(r, SuccessResponse(sdoc[r].sessionId, profileData))
    /\ UNCHANGED <<otpVars, now, tokens, students, artists, io, req>>

\* The store rejects the session insert.
SessionSaveFail(r) ==
    /\ pc[r] = "sessionSave"
    /\ Finish(r, ServerErrorResponse)
    /\ UNCHANGED <<otpVars, now, store, io, req>>

\* session.save() completes, and io.broadcastArtistScan / broadcastStudentScan
\* throws: the call is inside the route's outer try, before res.json.
BroadcastThrow(r) ==
    /\ pc[r] = "sessionSave"
    /\ io # "null"
    /\ sessions' = sessions \cup {sdoc[r]}
    /\ Finish(r, ServerErrorResponse)
    /\ UNCHANGED <<otpVars, now, tokens, students, artists, emitted, io, req>>

Tick ==
    /\ now < MaxTime
    /\ now' = now + 1
    /\ UNCHANGED <<otpVars, store, io, procs>>

Init ==
    /\ now = 0
    /\ otpStore = [k \in OtpKeys |-> NoEntry]
    /\ otpCall = NoDoc
    /\ tokens = [t \in TokenStrs |-> NoDoc]
    /\ students = [id \in StudentIds |-> NewStudent(id)]
    /\ artists = [id \in ArtistIds |-> NewArtist(id)]
    /\ sessions = {}
    /\ io \in {"null", "socket"}
    /\ emitted = {}
    /\ pc = [r \in Reqs |-> "idle"]
    /\ req = [r \in Reqs |-> NoDoc]
    /\ tdoc = [r \in Reqs |-> NoDoc]
    /\ dirty = [r \in Reqs |-> {}]
    /\ edoc = [r \in Reqs |-> NoDoc]
    /\ histOp = [r \in Reqs |-> "none"]
    /\ sdoc = [r \in Reqs |-> NoDoc]
    /\ resp = [r \in Reqs |-> NoResp]

\* ------------------------------------------------------ specifications
\* The token factories, called for token strings of T.
Issue(T) ==
    \/ \E tok \in T, id \in StudentIds :
          CreatePermanentToken(tok, id)
    \/ \E tok \in T, id \in ArtistIds :
          CreateArtistPermanentToken(tok, id)
    \/ \E tok \in T, id \in EntityIds, h \in HoursValid :
          CreateTemporaryToken(tok, id, EntityTypeOfId(id), h)
    \/ \E tok \in T, id \in EntityIds :
          CreateOneTimeToken(tok, id)

Arrive ==
    \E r \in Reqs, tok \in TokenStrs, c \in Clients :
        GetStart(r, tok, c.ipAddress, c.userAgent)

Step ==
    \E r \in Reqs :
        \/ VerifyFindOne(r)
        \/ VerifySave(r)
        \/ EntityFindOne(r)
        \/ ScanSave(r)
        \/ ScanSaveFail(r)
        \/ SessionSave(r)
        \/ SessionSaveFail(r)
        \/ BroadcastThrow(r)

\* Requests interleaved at their awaits.  Tokens are issued under the
\* strings of IssuedStrs; the other strings stay unknown to the store.
Next == Tick \/ Issue(IssuedStrs) \/ Arrive \/ Step

Spec == Init /\ [][Next]_vars

\* One operation at a time: nothing starts while a request is in flight.
SeqNext ==
    \/ Tick
    \/ Idle /\ Issue(IssuedStrs)
    \/ Idle /\ Arrive
    \/ Step

SeqSpec == Init /\ [][SeqNext]_vars

\* ------------------------------------------------------ session routes
\* POST /api/student/session/:sessionId/end, .../action and
\* POST /api/sessions/cleanup, on the sessions the profile route created.
SessionIdStrs == {SessionIdOf(1), SessionIdOf(2), "SESSION-unknown"}
\* the enum of actions.type
ActionEnum == {"view", "call", "share", "download", "print"}
NoAction == "undefined"
\* values of req.body.action: two of the enum, one outside it, and none
ActionTypes == {"view", "share", "hack", NoAction}
InactivityMinutes == {0, 30}

\* Mutant: a miss falls back to some stored session.
SessionById_AnyOnMiss(sid) ==
    IF \E s \in sessions : s.sessionId = sid
    THEN CHOOSE s \in sessions : s.sessionId = sid
    ELSE IF sessions = {} THEN NoDoc
    ELSE CHOOSE s \in sessions : TRUE

\* Session.findOne({ sessionId })
SessionById(sid) ==
    IF \E s \in sessions : s.sessionId = sid
    THEN CHOOSE s \in sessions : s.sessionId = sid
    ELSE NoDoc

PutSession(old, new) == (sessions \ {old}) \cup {new}

\* Math.floor((endTime - startTime) / 1000), dates being clock ticks
Duration(startTime, endTime) == ((endTime - startTime) * TickMs) \div 1000

\* Mutant: endSession without its isActive guard.
EndSession_NoGuard(doc, t) ==
    [doc EXCEPT !.endTime = t, !.duration = Duration(doc.startTime, t),
                !.isActive = FALSE]

\* endSession up to its save(): the document as changed in memory.
EndSession(doc, t) ==
    IF ~doc.isActive THEN doc
    ELSE [doc EXCEPT !.endTime = t, !.duration = Duration(doc.startTime, t),
                     !.isActive = FALSE]

\* recordAction up to its save().
RecordAction(doc, actionType, t) ==
    [doc EXCEPT !.actions = Append(@, [type |-> actionType, timestamp |-> t]),
                !.pageViews = @ + 1]

SessionNotFoundResponse ==
    [status |-> 404, success |-> FALSE, message |-> "Session not found"]

SessionErrorResponse(message) ==
    [status |-> 500, success |-> FALSE, message |-> message]

EndResponse(session) ==
    [status |-> 200, success |-> TRUE, message |-> "Session ended",
     sessionId |-> session.sessionId, duration |-> session.duration]

ActionResponse(session) ==
    [status |-> 200, success |-> TRUE, message |-> "Action recorded",
     sessionId |-> session.sessionId, pageViews |-> session.pageViews,
     actions |-> session.actions]

CleanupResponse(modifiedCount) ==
    [status |-> 200, success |-> TRUE, message |-> "Cleanup completed",
     sessionsUpdated |-> modifiedCount]

\* A request to a session route arrives and runs up to its first await.
SessionArrive(r, request, label) ==
    /\ pc[r] = "idle"
    /\ \A q \in Reqs : q < r => pc[q] # "idle"
    /\ req' = [req EXCEPT ![r] = request]
    /\ Goto(r, label)
    /\ UNCHANGED <<otpVars, now, store, io, tdoc, dirty, edoc, histOp, sdoc>>

EndStart(r, sid) ==
    SessionArrive(r, [op |-> "end", sessionId |-> sid], "endFind")

\* findOne returns: 404, or endSession runs: it returns at once on an
\* inactive session, else changes the document and awaits save().
EndFindOne(r) ==
    /\ pc[r] = "endFind"
    /\ LET doc == SessionById(req[r].sessionId)
           local == EndSession(doc, now)
       IN  IF doc = NoDoc THEN Finish(r, SessionNotFoundResponse)
           ELSE IF local = doc THEN Finish(r, EndResponse(doc))
           ELSE /\ Locals(r, NoDoc, ModifiedPaths(doc, local), NoDoc, "none",
                          local)
                /\ Goto(r, "endSave")
    /\ UNCHANGED <<otpVars, now, store, io, req>>

\* The save() of a session document completes: its modified paths are
\* written, or it throws when the document is gone.
EndSave(r) ==
    /\ pc[r] = "endSave"
    /\ LET stored == SessionById(sdoc[r].sessionId)
       IN  IF stored = NoDoc
           THEN /\ Finish(r, SessionErrorResponse(
                                "Server error while ending session"))
                /\ UNCHANGED sessions
           ELSE /\ sessions' = PutSession(stored,
                                          SaveDoc(stored, sdoc[r], dirty[r]))
                /\ Finish(r, EndResponse(sdoc[r]))
    /\ UNCHANGED <<otpVars, now, tokens, students, artists, emitted, io, req>>

ActionStart(r, sid, actionType) ==
    SessionArrive(r, [op |-> "action", sessionId |-> sid,
                      action |-> actionType], "actionFind")

ActionFindOne(r) ==
    /\ pc[r] = "actionFind"
    /\ LET doc == SessionById(req[r].sessionId)
       IN  IF doc = NoDoc THEN Finish(r, SessionNotFoundResponse)
           ELSE /\ Locals(r, NoDoc, {"actions", "pageViews"}, NoDoc, "$push",
                          RecordAction(doc, req[r].action, now))
                /\ Goto(r, "actionSave")
    /\ UNCHANGED <<otpVars, now, store, io, req>>

\* Validation of actions.type at save(): the enum validator is not run on
\* an undefined value, and the path is not required.
ActionTypeValid(actionType) ==
    actionType = NoAction \/ actionType \in ActionEnum

\* save() after recordAction: a ValidationError rejects it before anything
\* is written; else actions.push is sent as $push of the new element and
\* pageViews as $set of the value computed in memory.
ActionSave(r) ==
    /\ pc[r] = "actionSave"
    /\ LET stored == SessionById(sdoc[r].sessionId)
           local == sdoc[r]
       IN  IF stored = NoDoc \/ ~ActionTypeValid(req[r].action)
           THEN /\ Finish(r, SessionErrorResponse(
                                "Server error while recording action"))
                /\ UNCHANGED sessions
           ELSE /\ sessions' = PutSession(stored,
                      [stored EXCEPT
                          !.actions = Append(@, local.actions[Len(local.actions)]),
                          !.pageViews = local.pageViews])
                /\ Finish(r, ActionResponse(local))
    /\ UNCHANGED <<otpVars, now, tokens, students, artists, emitted, io, req>>

\* cleanupInactiveSessions: cutoffTime and the $set document are built
\* before the await of updateMany.
CleanupStart(r, inactivityMinutes) ==
    SessionArrive(r, [op |-> "cleanup",
                      cutoffMs |-> now * TickMs - inactivityMinutes * 60000,
                      endTime |-> now], "cleanup")

\* The filter of the updateMany.
CleanupMatches(s, cutoffMs) ==
    s.isActive /\ s.startTime * TickMs < cutoffMs /\ s.endTime = NoDate

\* The $set carries a JavaScript function as the value of the Number path
\* duration.  Casting the update rejects it (CastError) and nothing is
\* written; a driver that lets the update through writes isActive and
\* endTime and no number for duration.
CleanupCastError(r) ==
    /\ pc[r] = "cleanup"
    /\ Finish(r, SessionErrorResponse(
                     "Server error while cleaning up sessions"))
    /\ UNCHANGED <<otpVars, now, store, io, req>>

CleanupUpdateMany(r) ==
    /\ pc[r] = "cleanup"
    /\ LET hit == {s \in sessions : CleanupMatches(s, req[r].cutoffMs)}
       IN  /\ sessions' = (sessions \ hit) \cup
                  {[s EXCEPT !.isActive = FALSE, !.endTime = req[r].endTime]
                      : s \in hit}
           /\ Finish(r, CleanupResponse(Cardinality(hit)))
    /\ UNCHANGED <<otpVars, now, tokens, students, artists, emitted, io, req>>

\* One recordScan as the profile route runs it for a student.
ScannedStudent(student, c, t) ==
    SavedStudent(student,
                 StudentRecordScan(student, c.ipAddress, c.userAgent, t),
                 "$push")

\* The state two successive resolutions of the permanent token of one
\* entity leave behind: the first at time 0, the second at time `now`.
SessionInit ==
    /\ now \in {0, 1}
    /\ otpStore = [k \in OtpKeys |-> NoEntry]
    /\ otpCall = NoDoc
    /\ io = "null"
    /\ emitted = {}
    /\ \E id \in EntityIds, c \in Clients :
          LET ty == EntityTypeOfId(id)
              fresh == IF ty = "artist" THEN ArtistPermanentDoc("tokA", id)
                       ELSE PermanentDoc("tokA", id)
              used == UseToken(UseToken(fresh, c.ipAddress, c.userAgent, 0),
                               c.ipAddress, c.userAgent, now)
          IN  /\ tokens = [t \in TokenStrs |->
                              IF t = "tokA" THEN used ELSE NoDoc]
              /\ students = [s \in StudentIds |->
                    IF s = id
                    THEN ScannedStudent(ScannedStudent(NewStudent(s), c, 0),
                                        c, now)
                    ELSE NewStudent(s)]
              /\ artists = [a \in ArtistIds |->
                    IF a = id
                    THEN ArtistRecordScan(ArtistRecordScan(NewArtist(a), 0),
                                          now)
                    ELSE NewArtist(a)]
              /\ sessions =
                    {NewSession(1, ty, id, c.ipAddress, c.userAgent, 0),
                     NewSession(2, ty, id, c.ipAddress, c.userAgent, now)}
    /\ pc = [r \in Reqs |-> "idle"]
    /\ req = [r \in Reqs |-> NoDoc]
    /\ tdoc = [r \in Reqs |-> NoDoc]
    /\ dirty = [r \in Reqs |-> {}]
    /\ edoc = [r \in Reqs |-> NoDoc]
    /\ histOp = [r \in Reqs |-> "none"]
    /\ sdoc = [r \in Reqs |-> NoDoc]
    /\ resp = [r \in Reqs |-> NoResp]

SessionCall ==
    \E r \in Reqs :
        \/ \E sid \in SessionIdStrs : EndStart(r, sid)
        \/ \E sid \in SessionIdStrs, a \in ActionTypes :
              ActionStart(r, sid, a)
        \/ \E m \in InactivityMinutes : CleanupStart(r, m)

SessionStep ==
    \E r \in Reqs :
        \/ EndFindOne(r)
        \/ EndSave(r)
        \/ ActionFindOne(r)
        \/ ActionSave(r)
        \/ CleanupCastError(r)
        \/ CleanupUpdateMany(r)

\* Session requests interleaved at their awaits.
SessionNext == Tick \/ SessionCall \/ SessionStep

SessionSpec == SessionInit /\ [][SessionNext]_vars

\* One session request at a time.
SeqSessionNext ==
    \/ Tick
    \/ Idle /\ SessionCall
    \/ SessionStep

SeqSessionSpec == SessionInit /\ [][SeqSessionNext]_vars

\* -------------------------------------------------- user-agent strings
UaWords ==
    {"Mozilla/5.0", "Chrome/120.0", "Safari/604.1", "FIREFOX/121", "Edge/18",
     "Opera/9.80", "Mobile", "Android 14", "iPad", "Tablet",
     "Windows NT 10.0", "Macintosh", "X11; Linux", "iPhone", "CriOS/120",
     "curl/8.4", "Unknown", "Mozilla/5.0 Chrome/120.0 Safari/537.36"}

RECURSIVE UaTexts(_)
UaTexts(n) ==
    IF n <= 1 THEN UaWords
    ELSE UaTexts(n - 1) \cup
         {a \o " " \o b : a \in UaTexts(n - 1), b \in UaWords}

\* A request with some user-agent header has reached the construction of
\* its Session.
UaInit ==
    /\ now = 0
    /\ otpStore = [k \in OtpKeys |-> NoEntry]
    /\ otpCall = NoDoc
    /\ tokens = [t \in TokenStrs |-> NoDoc]
    /\ students = [id \in StudentIds |-> NewStudent(id)]
    /\ artists = [id \in ArtistIds |-> NewArtist(id)]
    /\ sessions = {}
    /\ io = "null"
    /\ emitted = {}
    /\ pc = [r \in Reqs |-> "idle"]
    /\ \E ua \in UaTexts(MaxUaWords) :
          req = [r \in Reqs |->
                    IF r = 1 THEN [token |-> "tokA", ipAddress |-> "10.0.0.7",
                                   userAgent |-> ua]
                    ELSE NoDoc]
    /\ tdoc = [r \in Reqs |-> NoDoc]
    /\ dirty = [r \in Reqs |-> {}]
    /\ edoc = [r \in Reqs |-> NoDoc]
    /\ histOp = [r \in Reqs |-> "none"]
    /\ sdoc = [r \in Reqs |-> NoDoc]
    /\ resp = [r \in Reqs |-> NoResp]

\* new Session(sessionData) and the pre('save') hook of its save().
SessionPreSave(r, id) ==
    /\ req[r] # NoDoc
    /\ sdoc[r] = NoDoc
    /\ sdoc' = [sdoc EXCEPT ![r] =
                  NewSession(r, EntityTypeOfId(id), id, req[r].ipAddress,
                             req[r].userAgent, now)]
    /\ UNCHANGED <<otpVars, now, store, io, pc, req, tdoc, dirty, edoc, histOp, resp>>

UaNext == \E r \in Reqs, id \in StudentIds : SessionPreSave(r, id)

UaSpec == UaInit /\ [][UaNext]_vars

\* A caller runs Student.recordScan to completion again and again, one call
\* at each clock instant, always as the same client (kept in req[1]).
ScanInit ==
    /\ now \in 0..MaxTime
    /\ otpStore = [k \in OtpKeys |-> NoEntry]
    /\ otpCall = NoDoc
    /\ tokens = [t \in TokenStrs |-> NoDoc]
    /\ students = [id \in StudentIds |-> NewStudent(id)]
    /\ artists = [id \in ArtistIds |-> NewArtist(id)]
    /\ sessions = {}
    /\ io = "null"
    /\ emitted = {}
    /\ pc = [r \in Reqs |-> "idle"]
    /\ \E c \in Clients :
          req = [r \in Reqs |-> IF r = 1 THEN c ELSE NoDoc]
    /\ tdoc = [r \in Reqs |-> NoDoc]
    /\ dirty = [r \in Reqs |-> {}]
    /\ edoc = [r \in Reqs |-> NoDoc]
    /\ histOp = [r \in Reqs |-> "none"]
    /\ sdoc = [r \in Reqs |-> NoDoc]
    /\ resp = [r \in Reqs |-> NoResp]

\* student.recordScan(ipAddress, userAgent), from the change of the loaded
\* document to the completion of its save().
RecordScanCall(id) ==
    /\ students[id].scanCount < ScanHistoryCap + MaxExtraScans
    /\ LET read == students[id]
           local == StudentRecordScan(read, req[1].ipAddress,
                                      req[1].userAgent, now)
           op == IF Shifted(read) THEN "$set" ELSE "$push"
       IN  students' = [students EXCEPT ![id] = SavedStudent(read, local, op)]
    /\ now' = now + 1
    /\ UNCHANGED <<otpVars, tokens, artists, sessions, io, emitted, procs>>

ScanNext == \E id \in StudentIds : RecordScanCall(id)

ScanSpec == ScanInit /\ [][ScanNext]_vars

\* NumReq + 1 requests for the permanent token of one entity, all from the
\* same client, interleaved at their awaits.
RaceReqs == 1..(NumReq + 1)

RaceInit ==
    /\ now = 0
    /\ otpStore = [k \in OtpKeys |-> NoEntry]
    /\ otpCall = NoDoc
    /\ \E id \in EntityIds :
          tokens = [t \in TokenStrs |->
                       IF t \notin IssuedStrs THEN NoDoc
                       ELSE IF id \in ArtistIds THEN ArtistPermanentDoc(t, id)
                       ELSE PermanentDoc(t, id)]
    /\ students = [id \in StudentIds |-> NewStudent(id)]
    /\ artists = [id \in ArtistIds |-> NewArtist(id)]
    /\ sessions = {}
    /\ io = "null"
    /\ emitted = {}
    /\ pc = [r \in RaceReqs |-> "idle"]
    /\ req = [r \in RaceReqs |-> NoDoc]
    /\ tdoc = [r \in RaceReqs |-> NoDoc]
    /\ dirty = [r \in RaceReqs |-> {}]
    /\ edoc = [r \in RaceReqs |-> NoDoc]
    /\ histOp = [r \in RaceReqs |-> "none"]
    /\ sdoc = [r \in RaceReqs |-> NoDoc]
    /\ resp = [r \in RaceReqs |-> NoResp]

RaceNext ==
    \E r \in RaceReqs :
        \/ \E tok \in IssuedStrs :
              GetStart(r, tok, "10.0.0.7", "Mozilla/5.0")
        \/ VerifyFindOne(r)
        \/ VerifySave(r)
        \/ EntityFindOne(r)
        \/ ScanSave(r)
        \/ SessionSave(r)

RaceSpec == RaceInit /\ [][RaceNext]_vars

\* ------------------------------------------- revocation and admin routes
\* Both token strings are stored: tokA of any kind, tokB permanent.
AdminTokenDocs(tok) ==
    {PermanentDoc(tok, id) : id \in StudentIds}
        \cup {ArtistPermanentDoc(tok, id) : id \in ArtistIds}
        \cup {[TemporaryDoc(tok, id, EntityTypeOfId(id), h)
                  EXCEPT !.expiresAt = ExpiresAt(0, h)] :
                 id \in EntityIds, h \in HoursValid}
        \cup {OneTimeDoc(tok, id) : id \in StudentIds}

AdminInit ==
    /\ now = 0
    /\ otpStore = [k \in OtpKeys |-> NoEntry]
    /\ otpCall = NoDoc
    /\ \E a \in AdminTokenDocs("tokA"), id \in StudentIds :
          tokens = [t \in TokenStrs |->
                       IF t = "tokA" THEN a ELSE PermanentDoc(t, id)]
    /\ students = [id \in StudentIds |-> NewStudent(id)]
    /\ artists = [id \in ArtistIds |-> NewArtist(id)]
    /\ sessions = {}
    /\ io = "null"
    /\ emitted = {}
    /\ pc = [r \in Reqs |-> "idle"]
    /\ req = [r \in Reqs |-> NoDoc]
    /\ tdoc = [r \in Reqs |-> NoDoc]
    /\ dirty = [r \in Reqs |-> {}]
    /\ edoc = [r \in Reqs |-> NoDoc]
    /\ histOp = [r \in Reqs |-> "none"]
    /\ sdoc = [r \in Reqs |-> NoDoc]
    /\ resp = [r \in Reqs |-> NoResp]

AdminCall ==
    \/ \E id \in StudentIds : DeleteStudent(id)
    \/ \E id \in StudentIds : ToggleStudentStatus(id)
    \/ \E id \in ArtistIds : DeactivateArtist(id)

AdminStep ==
    \E r \in Reqs :
        \/ VerifyFindOne(r)
        \/ VerifySave(r)
        \/ EntityFindOne(r)
        \/ ScanSave(r)
        \/ ScanSaveFail(r)
        \/ SessionSave(r)

\* A request for tokA arrives.
AdminArrive == \E r \in Reqs : GetStart(r, "tokA", "10.0.0.7", "Mozilla/5.0")

\* GET requests one at a time; between any two of their steps the clock
\* advances and the admin routes delete, disable and enable the entities.
AdminNext == Tick \/ AdminCall \/ (Idle /\ AdminArrive) \/ AdminStep

AdminSpec == AdminInit /\ [][AdminNext]_vars

\* GET requests interleaved at their awaits while tokens are revoked.
RevokeNext ==
    (\E tok \in TokenStrs : Revoke(tok)) \/ AdminArrive \/ AdminStep

RevokeSpec == AdminInit /\ [][RevokeNext]_vars

\* ----------------------------------------- overlapping scans at the cap
\* A student whose tag was scanned n times, one scan per call of recordScan,
\* all by the same client at instant 0.
ScannedTimes(id, n) ==
    [NewStudent(id) EXCEPT
        !.scanCount = n,
        !.lastScanned = IF n = 0 THEN NoDate ELSE 0,
        !.scanHistory = [i \in 1..(IF n < ScanHistoryCap THEN n
                                    ELSE ScanHistoryCap) |->
                            [scannedAt |-> 0, ipAddress |-> "10.0.0.7",
                             userAgent |-> "Mozilla/5.0"]],
        !.v = n]

\* The student's history is at most MaxExtraScans entries short of the cap
\* when GET requests for the student's permanent token arrive.
CapRaceInit ==
    /\ now = 0
    /\ otpStore = [k \in OtpKeys |-> NoEntry]
    /\ otpCall = NoDoc
    /\ \E id \in StudentIds, short \in 0..MaxExtraScans :
          /\ tokens = [t \in TokenStrs |->
                          IF t = "tokA"
                          THEN [PermanentDoc(t, id) EXCEPT
                                   !.accessCount = ScanHistoryCap - short,
                                   !.lastAccessedAt = 0,
                                   !.ipAddress = "10.0.0.7",
                                   !.userAgent = "Mozilla/5.0"]
                          ELSE NoDoc]
          /\ students = [s \in StudentIds |->
                            IF s = id
                            THEN ScannedTimes(s, ScanHistoryCap - short)
                            ELSE NewStudent(s)]
    /\ artists = [id \in ArtistIds |-> NewArtist(id)]
    /\ sessions = {}
    /\ io = "null"
    /\ emitted = {}
    /\ pc = [r \in Reqs |-> "idle"]
    /\ req = [r \in Reqs |-> NoDoc]
    /\ tdoc = [r \in Reqs |-> NoDoc]
    /\ dirty = [r \in Reqs |-> {}]
    /\ edoc = [r \in Reqs |-> NoDoc]
    /\ histOp = [r \in Reqs |-> "none"]
    /\ sdoc = [r \in Reqs |-> NoDoc]
    /\ resp = [r \in Reqs |-> NoResp]

\* The requests interleaved at their awaits.
CapRaceNext == AdminArrive \/ AdminStep

CapRaceSpec == CapRaceInit /\ [][CapRaceNext]_vars

\* --------------------------------------------------------- expiry purge
\* GET requests for tokA one at a time while the clock advances and the
\* expiry pass runs.
PurgeNext ==
    \/ Tick
    \/ \E tok \in TokenStrs : TtlPurge(tok)
    \/ Idle /\ AdminArrive
    \/ AdminStep

PurgeSpec == AdminInit /\ [][PurgeNext]_vars

\* The expiry pass is a periodic background task of the database: it is
\* not postponed forever.
PurgeLiveSpec == PurgeSpec /\ \A tok \in TokenStrs : WF_vars(TtlPurge(tok))

\* -------------------------------------------------------------- OTP store
\* String.prototype.trim, for the blanks of the inputs
RECURSIVE Trim(_)
Trim(str) ==
    IF Len(str) = 0 THEN ""
    ELSE IF SubSeq(str, 1, 1) = " " THEN Trim(SubSeq(str, 2, Len(str)))
    ELSE IF SubSeq(str, Len(str), Len(str)) = " "
         THEN Trim(SubSeq(str, 1, Len(str) - 1))
    ELSE str

\* key(email): (email || '').toLowerCase().trim()
Key(email) == Trim(ToLowerCase(email))

\* Date.now(), in milliseconds
DateNow == now * OtpTickMs

\* what callers pass as email and as otp
OtpEmails == {"a@x.io", " A@X.io ", "b@x.io", "B@x.io", ""}
OtpCodes == {"123456", "654321"}
OtpInputs == OtpCodes \cup {" 123456 "}

Returned(op, email, otp, value) ==
    [op |-> op, email |-> email, otp |-> otp, value |-> value]

SetOtp(email, otp) ==
    LET k == Key(email)
    IN  /\ IF k = ""
           THEN /\ otpCall' = Returned("setOtp", email, otp, "null")
                /\ UNCHANGED otpStore
           ELSE /\ otpStore' = [otpStore EXCEPT
                                   ![k] = [otp |-> otp,
                                           expiresAt |->
                                               DateNow + OTP_EXPIRY_MS]]
                /\ otpCall' = Returned("setOtp", email, otp, otp)
        /\ UNCHANGED <<now, store, io, procs>>

\* store.get(k): an email whose key was never set has no entry
OtpEntry(k) == IF k \in OtpKeys THEN otpStore[k] ELSE NoEntry

GetOtp(email) ==
    LET k == Key(email)
        entry == OtpEntry(k)
    IN  /\ IF entry = NoEntry
           THEN /\ otpCall' = Returned("getOtp", email, "", "null")
                /\ UNCHANGED otpStore
           ELSE IF DateNow > entry.expiresAt
           THEN /\ otpStore' = [otpStore EXCEPT ![k] = NoEntry]
                /\ otpCall' = Returned("getOtp", email, "", "null")
           ELSE /\ otpCall' = Returned("getOtp", email, "", entry.otp)
                /\ UNCHANGED otpStore
        /\ UNCHANGED <<now, store, io, procs>>

\* Mutant: a consumed code stays in the store.
ConsumeOtp_KeepsEntry(email, otp) ==
    LET k == Key(email)
        entry == OtpEntry(k)
    IN  /\ IF entry = NoEntry \/ entry.otp # Trim(otp)
           THEN /\ otpCall' = Returned("consumeOtp", email, otp, FALSE)
                /\ UNCHANGED otpStore
           ELSE IF DateNow > entry.expiresAt
           THEN /\ otpStore' = [otpStore EXCEPT ![k] = NoEntry]
                /\ otpCall' = Returned("consumeOtp", email, otp, FALSE)
           ELSE /\ otpCall' = Returned("consumeOtp", email, otp, TRUE)
                /\ UNCHANGED otpStore
        /\ UNCHANGED <<now, store, io, procs>>

\* Mutant: the code is accepted whatever its age.
ConsumeOtp_NoExpiry(email, otp) ==
    LET k == Key(email)
        entry == OtpEntry(k)
    IN  /\ IF entry = NoEntry \/ entry.otp # Trim(otp)
           THEN /\ otpCall' = Returned("consumeOtp", email, otp, FALSE)
                /\ UNCHANGED otpStore
           ELSE /\ otpStore' = [otpStore EXCEPT ![k] = NoEntry]
                /\ otpCall' = Returned("consumeOtp", email, otp, TRUE)
        /\ UNCHANGED <<now, store, io, procs>>

ConsumeOtp(email, otp) ==
    LET k == Key(email)
        entry == OtpEntry(k)
    IN  /\ IF entry = NoEntry \/ entry.otp # Trim(otp)
           THEN /\ otpCall' = Returned("consumeOtp", email, otp, FALSE)
                /\ UNCHANGED otpStore
           ELSE IF DateNow > entry.expiresAt
           THEN /\ otpStore' = [otpStore EXCEPT ![k] = NoEntry]
                /\ otpCall' = Returned("consumeOtp", email, otp, FALSE)
           ELSE /\ otpStore' = [otpStore EXCEPT ![k] = NoEntry]
                /\ otpCall' = Returned("consumeOtp", email, otp, TRUE)
        /\ UNCHANGED <<now, store, io, procs>>

OtpInit == Init /\ io = "null"

\* The functions of the module are synchronous: each call is one step.
OtpNext ==
    \/ Tick
    \/ \E email \in OtpEmails, otp \in OtpCodes : SetOtp(email, otp)
    \/ \E email \in OtpEmails : GetOtp(email)
    \/ \E email \in OtpEmails, otp \in OtpInputs : ConsumeOtp(email, otp)

OtpSpec == OtpInit /\ [][OtpNext]_vars

\* ------------------------------------------------------ token factories
\* entityType arguments of createTemporaryToken: the two kinds, and the 24
\* that Student.generateShareLink passes in that position.
EntityTypeArgs == {"student", "artist", "24"}

\* One call of a factory as its caller sees it: the created document is
\* returned, or what create threw is thrown on (the factories call create
\* once and catch nothing).
FactoryCall(r, doc) ==
    /\ pc[r] = "idle"
    /\ \A q \in Reqs : q < r => pc[q] # "idle"
    /\ req' = [req EXCEPT ![r] = [op |-> "factory", token |-> doc.token,
                                  entityType |-> doc.entityType]]
    /\ pc' = [pc EXCEPT ![r] = "done"]
    /\ \/ /\ Create(doc)
          /\ resp' = [resp EXCEPT ![r] = [created |-> TRUE,
                                          token |-> doc.token]]
       \/ /\ CreateError(doc) # "ok"
          /\ UNCHANGED tokens
          /\ resp' = [resp EXCEPT ![r] = [created |-> FALSE,
                                          error |-> CreateError(doc)]]
    /\ UNCHANGED <<otpVars, now, students, artists, sessions, io, emitted,
                   tdoc, dirty, edoc, histOp, sdoc>>

\* student.generateShareLink(): createTemporaryToken(this.studentId, 24)
\* puts 24 in the place of entityType, so hoursValid takes its default; the
\* link is built from the token the factory returns.
GenerateShareLink(r, tok, studentId) ==
    LET doc == TemporaryDoc(tok, studentId, "24", DefaultHoursValid)
    IN  /\ pc[r] = "idle"
        /\ \A q \in Reqs : q < r => pc[q] # "idle"
        /\ req' = [req EXCEPT ![r] = [op |-> "generateShareLink",
                                      token |-> tok,
                                      entityType |-> doc.entityType,
                                      studentId |-> studentId]]
        /\ pc' = [pc EXCEPT ![r] = "done"]
        /\ \/ /\ Create(doc)
              /\ resp' = [resp EXCEPT ![r] =
                             [created |-> TRUE, token |-> tok,
                              url |-> "http://localhost:5173/p/" \o tok]]
           \/ /\ CreateError(doc) # "ok"
              /\ UNCHANGED tokens
              /\ resp' = [resp EXCEPT ![r] = [created |-> FALSE,
                                              error |-> CreateError(doc)]]
        /\ UNCHANGED <<otpVars, now, students, artists, sessions, io, emitted,
                       tdoc, dirty, edoc, histOp, sdoc>>

FactoryNext ==
    \E r \in Reqs, tok \in TokenStrs :
        \/ \E id \in StudentIds : GenerateShareLink(r, tok, id)
        \/ \E id \in StudentIds : FactoryCall(r, PermanentDoc(tok, id))
        \/ \E id \in ArtistIds : FactoryCall(r, ArtistPermanentDoc(tok, id))
        \/ \E id \in EntityIds, ty \in EntityTypeArgs, h \in HoursValid :
              FactoryCall(r, TemporaryDoc(tok, id, ty, h))
        \/ \E id \in StudentIds : FactoryCall(r, OneTimeDoc(tok, id))

\* The factories called one after another on an empty collection, the
\* strings of generateToken() drawn from TokenStrs.
FactoryInit == Init /\ io = "null"

FactorySpec == FactoryInit /\ [][FactoryNext]_vars

\* ------------------------------------------------------------- claims
Started(r) == pc[r] # "idle"

\* verifyAndUse has returned the token document to the route.
Resolved(r) ==
    \/ pc[r] \in {"entity", "scanSave", "sessionSave"}
    \/ pc[r] = "done" /\ resp[r].status # 403

IsStored(t, type) == tokens[t] # NoDoc /\ tokens[t].type = type

AlreadyUsed == TokenFailureResponse("Token has already been used")
Expired == TokenFailureResponse("Token has expired")

\* Request r leaves the findOne step in this transition.
Verifies(r) == pc[r] = "findOne" /\ pc'[r] # "findOne"

\* C1: of the concurrent resolutions of one one-time token exactly one
\* succeeds, every other one that found the token fails as already used,
\* and accessCount ends at 1.
C1_OneTimeResolvesOnce ==
    \A t \in TokenStrs : IsStored(t, "one-time") =>
        /\ Cardinality({r \in Reqs : Started(r) /\ req[r].token = t
                                       /\ Resolved(r)}) <= 1
        /\ tokens[t].accessCount <= 1
        /\ \A r \in Reqs :
              (pc[r] = "done" /\ req[r].token = t /\ resp[r].status = 403
                 /\ resp[r].message # "Invalid token")
              => resp[r] = AlreadyUsed

\* C2: in a sequential run, once a resolution r of a one-time token has
\* succeeded, every later resolution q of that token is answered "already
\* used", the entity's scanCount stays the one r reported, and the only
\* session is r's.
EntityOf(doc) ==
    IF doc.entityType = "artist" THEN artists[doc.artistId]
    ELSE students[doc.studentId]

C2_OneTimeSequential ==
    \A t \in TokenStrs : IsStored(t, "one-time") =>
        \A r, q \in Reqs :
            (r < q /\ Started(q) /\ req[r].token = t /\ req[q].token = t
               /\ Resolved(r) /\ pc[q] # "findOne")
            => /\ pc[q] = "done"
               /\ resp[q] = AlreadyUsed
               /\ resp[r].status = 200 =>
                     /\ EntityOf(tokens[t]).scanCount = resp[r].data.scanCount
                     /\ {s.sessionId : s \in sessions} = {resp[r].sessionId}
               /\ {s.sessionId : s \in sessions} \subseteq {SessionIdOf(r)}

C2_Witness ==
    \E r, q \in Reqs :
        /\ r < q /\ pc[q] = "done" /\ pc[r] = "done"
        /\ req[r].token = req[q].token
        /\ IsStored(req[r].token, "one-time")
        /\ resp[r].status = 200
        /\ resp[q] = AlreadyUsed

\* C3: a token of any kind created for an entity of either type resolves
\* to the profile of that entity: a request that passed the token check
\* (and lost no write) is answered 200 with a profile of the type of the
\* entity whose identifier the token carries.
C3_ResolvesToReferencedEntity ==
    \A r \in Reqs :
        (pc[r] = "done" /\ resp[r].status \notin {403, 500}
           /\ tokens[req[r].token] # NoDoc)
        => /\ resp[r].status = 200
           /\ resp[r].data.type =
                 EntityTypeOfId(TokenRefId(tokens[req[r].token]))

\* C4: the resolution of a temporary token whose expiresAt is earlier than
\* the current time is answered "Token has expired", and the
\* classification is the same whatever isUsed holds.
C4_ExpiredTemporaryFails ==
    [][\A r \in Reqs : Verifies(r) =>
          LET doc == tokens[req[r].token]
          IN  (doc # NoDoc /\ doc.type = "temporary" /\ doc.expiresAt < now)
              => /\ pc'[r] = "done"
                 /\ resp'[r] = Expired
                 /\ tokens' = tokens
                 /\ \A u \in BOOLEAN :
                       Verdict([doc EXCEPT !.isUsed = u], now)
                          = "Token has expired"]_vars

C4_Witness ==
    \E r \in Reqs :
        /\ pc[r] = "done" /\ resp[r] = Expired
        /\ IsStored(req[r].token, "temporary")
        /\ tokens[req[r].token].expiresAt < now

\* C5: in a sequential run every resolution of a stored permanent token
\* succeeds, and the save of each one leaves accessCount strictly greater
\* than it was.
C5_PermanentAlwaysResolves ==
    [][\A r \in Reqs :
          (pc[r] \in {"findOne", "save"} /\ pc'[r] # pc[r]
             /\ IsStored(req[r].token, "permanent"))
          => /\ pc[r] = "findOne" => pc'[r] = "save"
             /\ pc[r] = "save" =>
                   /\ pc'[r] = "entity"
                   /\ tokens'[req[r].token].accessCount
                         > tokens[req[r].token].accessCount]_vars

C5_Witness ==
    \E t \in TokenStrs :
        /\ IsStored(t, "permanent")
        /\ tokens[t].accessCount >= 2
        /\ \A r \in Reqs : pc[r] = "done" /\ req[r].token = t

\* C6: createTemporaryToken stores expiresAt = creation time + hoursValid
\* hours; a resolution of the token succeeds whenever the current time has
\* not passed expiresAt and fails as expired whenever it has.
C6_TemporaryValidUntilExpiry ==
    [][/\ \A t \in TokenStrs :
             (tokens[t] = NoDoc /\ tokens'[t] # NoDoc
                /\ tokens'[t].type = "temporary")
             => tokens'[t].expiresAt
                   = now + tokens'[t].hoursValid * TicksPerHour
       /\ \A r \in Reqs :
             (pc[r] \in {"findOne", "save"} /\ pc'[r] # pc[r]
                /\ IsStored(req[r].token, "temporary"))
             => LET doc == tokens[req[r].token]
                IN  /\ (pc[r] = "findOne" /\ now <= doc.expiresAt)
                          => pc'[r] = "save"
                    /\ (pc[r] = "findOne" /\ now > doc.expiresAt)
                          => pc'[r] = "done" /\ resp'[r] = Expired
                    /\ pc[r] = "save"
                          => /\ pc'[r] = "entity"
                             /\ tokens'[req[r].token].accessCount
                                   = doc.accessCount + 1]_vars

C6_Witness ==
    \E t \in TokenStrs :
        /\ IsStored(t, "temporary")
        /\ tokens[t].hoursValid > 0
        /\ tokens[t].accessCount >= 2
        /\ tokens[t].lastAccessedAt = tokens[t].expiresAt

\* C7 as claimed: a temporary token created with hoursValid = 0 is never
\* resolved successfully, not even at the clock instant of its creation.
C7_ZeroHoursNeverResolves ==
    \A t \in TokenStrs :
        (IsStored(t, "temporary") /\ tokens[t].hoursValid = 0)
        => /\ tokens[t].accessCount = 0
           /\ \A r \in Reqs :
                 (Started(r) /\ req[r].token = t) => ~Resolved(r)

\* C7 as amended: a temporary token created with hoursValid = 0 expires at
\* the instant of its creation; a resolution at any later instant fails as
\* expired, a resolution at that same instant succeeds.
C7_ZeroHoursExpiresAfterCreation ==
    [][/\ \A t \in TokenStrs :
             (tokens[t] = NoDoc /\ tokens'[t] # NoDoc
                /\ tokens'[t].type = "temporary"
                /\ tokens'[t].hoursValid = 0)
             => tokens'[t].expiresAt = now
       /\ \A r \in Reqs :
             (Verifies(r) /\ IsStored(req[r].token, "temporary")
                /\ tokens[req[r].token].hoursValid = 0)
             => /\ now > tokens[req[r].token].expiresAt
                      => pc'[r] = "done" /\ resp'[r] = Expired
                /\ now = tokens[req[r].token].expiresAt
                      => pc'[r] = "save"]_vars

C7_Witness ==
    \E r \in Reqs :
        /\ pc[r] = "done" /\ resp[r] = Expired
        /\ IsStored(req[r].token, "temporary")
        /\ tokens[req[r].token].hoursValid = 0
        /\ tokens[req[r].token].accessCount = 0

\* C8: every failed token resolution gets the same public response: two
\* 403 answers never differ in their message.
C8_UniformFailureResponse ==
    \A r, q \in Reqs :
        (pc[r] = "done" /\ pc[q] = "done"
           /\ resp[r].status = 403 /\ resp[q].status = 403)
        => resp[r] = resp[q]

\* C9: a success response carries neither an entity identifier, nor a
\* database _id, nor the token string, in any of its text fields.
ProfileTextFields(type) ==
    IF type = "artist" THEN {"name", "code", "specialization"}
    ELSE {"name", "rollNumber", "class", "school"}

C9_NoIdentifierInResponse ==
    \A r \in Reqs :
        (pc[r] = "done" /\ resp[r].status = 200) =>
            LET secrets == EntityIds \cup {ObjectIdOf(id) : id \in EntityIds}
                              \cup {req[r].token}
            IN  /\ resp[r].sessionId \notin secrets
                /\ \A f \in ProfileTextFields(resp[r].data.type) :
                      resp[r].data[f] \notin secrets

\* C10: no request leaves the scan-counter step with an error response: a
\* failed recordScan still ends in the success response.
C10_ScanFailureSwallowed ==
    [][\A r \in Reqs :
          (pc[r] = "scanSave" /\ pc'[r] = "done")
          => resp'[r].status = 200]_vars

\* C11: no request leaves the session-creation step with an error response
\* because session.save failed: a failed session insert still ends in the
\* success response carrying the profile.
C11_SessionFailureSwallowed ==
    [][\A r \in Reqs :
          (pc[r] = "sessionSave" /\ pc'[r] = "done"
             /\ SessionIdOf(r) \notin {s.sessionId : s \in sessions'})
          => /\ resp'[r].status = 200
             /\ resp'[r].data = ProfileData(tdoc[r].entityType, edoc[r])]_vars

\* C12: whatever the notifier does (none configured, nobody listening, the
\* broadcast call throwing), a request whose session was created is answered
\* with the success response.
C12_NotifierNeverFailsResponse ==
    \A r \in Reqs :
        (pc[r] = "done"
           /\ SessionIdOf(r) \in {s.sessionId : s \in sessions})
        => resp[r].status = 200

\* C13: scan-counter update and session creation are independent: a step in
\* which session creation fails leaves the persisted scan counters as they
\* are, and a step in which the scan-counter update fails still carries the
\* request on to session creation.
C13_ScanAndSessionIndependent ==
    [][\A r \in Reqs :
          /\ (pc[r] = "sessionSave" /\ pc'[r] = "done"
                 /\ SessionIdOf(r) \notin {s.sessionId : s \in sessions'})
             => /\ students' = students
                /\ artists' = artists
                /\ EntityOf(tdoc[r]).scanCount >= 1
          /\ (pc[r] = "scanSave" /\ pc'[r] # "scanSave"
                 /\ students' = students /\ artists' = artists)
             => pc'[r] = "sessionSave"]_vars

\* C14: within one request the steps run in the order token resolution,
\* scan-counter update, session creation, notifier emit, response: each
\* write of a request happens at its own step, finds the writes of the
\* earlier steps already persisted, and the success response is given only
\* with the session persisted and the event emitted.
C14_FixedStepOrder ==
    [][\A r \in Reqs : pc'[r] # pc[r] =>
          /\ tokens' # tokens => pc[r] = "save" /\ pc'[r] = "entity"
          /\ (students' # students \/ artists' # artists)
                => /\ pc[r] = "scanSave" /\ pc'[r] = "sessionSave"
                   /\ tokens[req[r].token].accessCount >= 1
                   /\ tokens' = tokens
          /\ sessions' # sessions
                => /\ pc[r] = "sessionSave"
                   /\ sessions' = sessions \cup {sdoc[r]}
                   /\ EntityOf(tdoc[r]).scanCount >= 1
                   /\ students' = students /\ artists' = artists
          /\ emitted' # emitted
                => /\ pc[r] = "sessionSave"
                   /\ sdoc[r] \in sessions'
                   /\ resp'[r].status = 200
          /\ (pc'[r] = "done" /\ resp'[r].status = 200)
                => /\ pc[r] = "sessionSave"
                   /\ sdoc[r] \in sessions'
                   /\ io # "null" =>
                         \E e \in emitted' : e.sessionId = SessionIdOf(r)]_vars

C14_Witness ==
    \E r \in Reqs :
        /\ pc[r] = "done" /\ resp[r].status = 200
        /\ \E e \in emitted : e.sessionId = resp[r].sessionId
        /\ \E s \in sessions : s.sessionId = resp[r].sessionId
        /\ tokens[req[r].token].accessCount >= 1

\* C15: in a sequential run of Student.recordScan calls scanHistory never
\* holds more than ScanHistoryCap entries, and it holds the most recent
\* insertions in insertion order: after cap + 1 insertions the first inserted
\* entry is gone and the last inserted one is at the end.
C15_HistoryCappedFifo ==
    \A id \in StudentIds :
        LET h == students[id].scanHistory
            n == students[id].scanCount
            last == students[id].lastScanned
        IN  /\ Len(h) <= ScanHistoryCap
            /\ Len(h) = IF n < ScanHistoryCap THEN n ELSE ScanHistoryCap
            /\ \A i \in 1..Len(h) : h[i].scannedAt = last - (Len(h) - i)
            /\ n > ScanHistoryCap =>
                  \A i \in 1..Len(h) : h[i].scannedAt > last - (n - 1)

C15_Witness ==
    \E id \in StudentIds :
        /\ students[id].scanCount = ScanHistoryCap + 1
        /\ Len(students[id].scanHistory) = ScanHistoryCap
        /\ students[id].scanHistory[ScanHistoryCap].scannedAt
              = students[id].lastScanned

\* C16: for a student as for an artist, a completed recordScan leaves the
\* stored scanCount one higher, lastScanned at the time of the call, and the
\* scan history one entry longer (or full), ending with this scan's entry.
C16_RecordScanEffects ==
    [][\A r \in Reqs :
          (pc[r] = "scanSave" /\ pc'[r] = "sessionSave") =>
              LET ty == tdoc[r].entityType
                  before == EntityOf(tdoc[r])
                  after == IF ty = "artist" THEN artists'[tdoc[r].artistId]
                           ELSE students'[tdoc[r].studentId]
              IN  /\ after.scanCount = before.scanCount + 1
                  /\ after.lastScanned = edoc[r].lastScanned
                  /\ after.lastScanned <= now
                  /\ "scanHistory" \in DOMAIN after
                  /\ LET h == after.scanHistory
                     IN  /\ Len(h) >= 1
                         /\ h[Len(h)].scannedAt = after.lastScanned
                         /\ \/ Len(h) = Len(before.scanHistory) + 1
                            \/ Len(h) = ScanHistoryCap]_vars

\* C17: the stored scanCount of an entity never decreases from one state to
\* the next, whatever the interleaving of the concurrent resolutions.
C17_ScanCountMonotonic ==
    [][/\ \A id \in StudentIds :
             (students[id] # NoDoc /\ students'[id] # NoDoc)
             => students'[id].scanCount >= students[id].scanCount
       /\ \A id \in ArtistIds :
             artists'[id].scanCount >= artists[id].scanCount]_vars

\* C18: in a sequential run the first endSession on an active session sets
\* endTime to the current time, duration to the whole seconds since
\* startTime and isActive to false, and persists exactly that; endSession
\* on a session that is already ended writes nothing and leaves endTime,
\* duration and isActive as they are.
C18_EndSessionIdempotent ==
    [][\A r \in Reqs :
          LET stored == SessionById(req[r].sessionId)
          IN  /\ (pc[r] = "endFind" /\ pc'[r] # "endFind" /\ stored # NoDoc)
                 => IF stored.isActive
                    THEN /\ pc'[r] = "endSave"
                         /\ sdoc'[r].endTime = now
                         /\ sdoc'[r].duration
                               = ((now - stored.startTime) * TickMs) \div 1000
                         /\ ~sdoc'[r].isActive
                    ELSE /\ pc'[r] = "done"
                         /\ sessions' = sessions
                         /\ resp'[r].status = 200
                         /\ resp'[r].duration = stored.duration
              /\ (pc[r] = "endSave" /\ pc'[r] # "endSave")
                 => /\ pc'[r] = "done"
                    /\ resp'[r].status = 200
                    /\ sessions' = (sessions \ {stored}) \cup
                          {[stored EXCEPT !.endTime = sdoc[r].endTime,
                                          !.duration = sdoc[r].duration,
                                          !.isActive = FALSE]}]_vars

C18_Witness ==
    \E r, q \in Reqs :
        /\ r < q /\ pc[r] = "done" /\ pc[q] = "done"
        /\ req[r].op = "end" /\ req[q].op = "end"
        /\ req[r].sessionId = req[q].sessionId
        /\ resp[r].status = 200 /\ resp[q].status = 200
        /\ LET s == SessionById(req[r].sessionId)
           IN  /\ ~s.isActive
               /\ s.endTime < now
               /\ s.duration > 0
               /\ resp[q].duration = s.duration

\* C19: a completed cleanupInactiveSessions has ended every session that
\* matched its filter (active, no endTime, started before the cutoff), with
\* isActive false, endTime set and duration the whole seconds between
\* startTime and endTime, and has left every other session unchanged.
C19_CleanupEndsStaleSessions ==
    [][\A r \in Reqs :
          (pc[r] = "cleanup" /\ pc'[r] = "done") =>
              \A s \in sessions :
                  IF CleanupMatches(s, req[r].cutoffMs)
                  THEN \E e \in sessions' :
                          /\ e.sessionId = s.sessionId
                          /\ ~e.isActive
                          /\ e.endTime # NoDate
                          /\ e.duration
                                = ((e.endTime - e.startTime) * TickMs) \div 1000
                  ELSE s \in sessions']_vars

\* C20: every stored session has pageViews = 1 + the number of its actions.
C20_PageViewsCountActions ==
    \A s \in sessions : s.pageViews = 1 + Len(s.actions)

\* C21: the actions list of a stored session only ever grows by one entry
\* appended at its end, earlier entries stay as and where they are, and
\* every stored entry has a type of the enum.
C21_ActionsAppendOnly ==
    [][\A s \in sessions : \A e \in sessions' :
          e.sessionId = s.sessionId =>
              /\ \/ e.actions = s.actions
                 \/ /\ Len(e.actions) = Len(s.actions) + 1
                    /\ SubSeq(e.actions, 1, Len(s.actions)) = s.actions
                    /\ \E r \in Reqs :
                          /\ pc[r] = "actionSave" /\ pc'[r] = "done"
                          /\ e.actions[Len(e.actions)].type = req[r].action
              /\ \A i \in 1..Len(e.actions) :
                    e.actions[i].type \in ActionEnum]_vars

\* C22: an action or end request whose sessionId matches no stored session
\* is answered 404 'Session not found', and the step neither creates nor
\* changes a session.
C22_UnknownSessionNotFound ==
    [][\A r \in Reqs :
          (pc[r] \in {"endFind", "actionFind"} /\ pc'[r] # pc[r]
             /\ ~\E s \in sessions : s.sessionId = req[r].sessionId)
          => /\ pc'[r] = "done"
             /\ resp'[r] = [status |-> 404, success |-> FALSE,
                            message |-> "Session not found"]
             /\ sessions' = sessions]_vars

C22_Witness ==
    \E r, q \in Reqs :
        /\ pc[r] = "done" /\ req[r].op = "end"
        /\ pc[q] = "done" /\ req[q].op = "action"
        /\ req[r].sessionId = "SESSION-unknown"
        /\ req[q].sessionId = "SESSION-unknown"
        /\ resp[r].status = 404 /\ resp[q].status = 404
        /\ \A s \in sessions : s.isActive /\ s.actions = <<>>

\* C23: the sessions stored are as many as the success responses given:
\* each successful resolution created exactly one session and a failed one
\* none, and every session starts active, with pageViews 1, no endTime and
\* no actions.
C23_OneSessionPerSuccess ==
    /\ Cardinality(sessions)
          = Cardinality({r \in Reqs : pc[r] = "done" /\ resp[r].status = 200})
    /\ \A r \in Reqs :
          (pc[r] = "done" /\ resp[r].status = 200)
          => \E s \in sessions : s.sessionId = resp[r].sessionId
    /\ \A s \in sessions :
          /\ s.isActive /\ s.pageViews = 1
          /\ s.endTime = NoDate /\ s.actions = <<>>

\* The classification of a user-agent string as C24 words it; iosKeys are
\* the substrings that count as a match of ios.
UaMentions(userAgent, key) == Includes(ToLowerCase(userAgent), key)

UaClassified(d, iosKeys) ==
    LET has(k) == UaMentions(d.userAgent, k)
    IN  /\ d.deviceType =
              IF has("mobile") \/ has("android") THEN "mobile"
              ELSE IF has("tablet") \/ has("ipad") THEN "tablet"
              ELSE IF has("mozilla") \/ has("chrome") \/ has("safari")
                   THEN "desktop"
              ELSE "unknown"
        /\ d.browser =
              IF has("chrome") THEN "Chrome"
              ELSE IF has("firefox") THEN "Firefox"
              ELSE IF has("safari") THEN "Safari"
              ELSE IF has("edge") THEN "Edge"
              ELSE IF has("opera") THEN "Opera"
              ELSE "Unknown"
        /\ d.os =
              IF has("windows") THEN "Windows"
              ELSE IF has("mac") THEN "macOS"
              ELSE IF has("linux") THEN "Linux"
              ELSE IF has("android") THEN "Android"
              ELSE IF \E k \in iosKeys : has(k) THEN "iOS"
              ELSE "Unknown"

\* C24 as claimed: a new session's deviceType, browser and os are the
\* case-insensitive ordered first matches, the os being iOS exactly when
\* none of windows, mac, linux, android occurs and 'ios' does.
C24_UaClassification ==
    \A r \in Reqs : sdoc[r] # NoDoc => UaClassified(sdoc[r], {"ios"})

\* C24 as amended: the same ordered first matches, the last os check being
\* a match of 'ios', 'iphone' or 'ipad'; a user agent with Mozilla, Chrome
\* and Safari and no os token is desktop / Chrome / Unknown.
C24_UaClassificationIosFamily ==
    \A r \in Reqs : sdoc[r] # NoDoc =>
        /\ UaClassified(sdoc[r], {"ios", "iphone", "ipad"})
        /\ sdoc[r].userAgent = "Mozilla/5.0 Chrome/120.0 Safari/537.36"
              => /\ sdoc[r].deviceType = "desktop"
                 /\ sdoc[r].browser = "Chrome"
                 /\ sdoc[r].os = "Unknown"

C24_Witness ==
    \E r \in Reqs :
        /\ sdoc[r] # NoDoc
        /\ sdoc[r].userAgent = "Mozilla/5.0 Chrome/120.0 Safari/537.36"
        /\ sdoc[r].deviceType = "desktop"
        /\ sdoc[r].browser = "Chrome"
        /\ sdoc[r].os = "Unknown"

\* C25: the save of a successful verifyAndUse leaves the token's ipAddress
\* and userAgent equal to the values of that request, an absent IP address
\* included; no value of an earlier access survives it.
C25_TelemetryMostRecent ==
    [][\A r \in Reqs :
          (pc[r] = "save" /\ pc'[r] = "entity") =>
              /\ tokens'[req[r].token].ipAddress = req[r].ipAddress
              /\ tokens'[req[r].token].userAgent = req[r].userAgent]_vars

\* C26: once revoke() has removed a token, its record never comes back, a
\* lookup of that token string made afterwards ends the request with the
\* 403 'Invalid token', and the revocation changes no other token.
C26_RevokedStaysGone ==
    [][/\ \A tok \in TokenStrs :
            tokens[tok] = NoDoc => tokens'[tok] = NoDoc
       /\ \A r \in Reqs :
            (pc[r] = "findOne" /\ pc'[r] # "findOne"
                /\ tokens[req[r].token] = NoDoc) =>
                /\ pc'[r] = "done"
                /\ resp'[r] = [status |-> 403, success |-> FALSE,
                               message |-> "Invalid token"]
       /\ \A tok \in TokenStrs :
            (tokens[tok] # NoDoc /\ tokens'[tok] = NoDoc) =>
                \A other \in TokenStrs \ {tok} :
                    tokens'[other] = tokens[other]]_vars

\* A request that resolved the token, then its revocation, then a request
\* that was refused.
C26_Witness ==
    \E r, q \in Reqs :
        /\ r < q
        /\ pc[r] = "done" /\ resp[r].status = 200
        /\ pc[q] = "done" /\ req[q].token = req[r].token
        /\ resp[q].status = 403 /\ resp[q].message = "Invalid token"
        /\ tokens[req[q].token] = NoDoc

\* The entity a verified request is about to look up is missing or disabled.
EntityGone(r) ==
    LET id == TokenRefId(tdoc[r])
    IN  IF tdoc[r].entityType = "artist"
        THEN id \notin ArtistIds \/ ~artists[id].isActive
        ELSE id \notin StudentIds \/ students[id] = NoDoc
                \/ ~students[id].isActive

\* C27: when the token was valid but the entity it names is missing or has
\* isActive = false, the entity lookup ends the request with the 404
\* not-found response, which is not the 403 of a token failure, changes no
\* student and no artist (no scanCount moves) and creates no session.
C27_EntityGoneNotFound ==
    [][\A r \in Reqs :
          (pc[r] = "entity" /\ pc'[r] # "entity" /\ EntityGone(r)) =>
              /\ pc'[r] = "done"
              /\ resp'[r].status = 404
              /\ resp'[r].success = FALSE
              /\ resp'[r].message =
                    (IF tdoc[r].entityType = "artist"
                     THEN "Artist profile not found or inactive"
                     ELSE "Student profile not found or inactive")
              /\ \A m \in {"", "Invalid token", "Token has expired",
                            "Token has already been used"} :
                    resp'[r] # TokenFailureResponse(m)
              /\ UNCHANGED <<students, artists, sessions, emitted>>]_vars

\* A request whose token verified (its accessCount moved) was answered 404
\* because the student or the artist is disabled; the entity's scanCount is
\* still 0 and the request has no session.
C27_Witness ==
    \E r \in Reqs :
        /\ pc[r] = "done" /\ resp[r].status = 404
        /\ tokens[req[r].token] # NoDoc
        /\ tokens[req[r].token].accessCount > 0
        /\ \A s \in sessions : s.sessionId # SessionIdOf(r)
        /\ \/ /\ tokens[req[r].token].entityType = "student"
              /\ students[tokens[req[r].token].studentId] # NoDoc
              /\ ~students[tokens[req[r].token].studentId].isActive
              /\ students[tokens[req[r].token].studentId].scanCount = 0
           \/ /\ tokens[req[r].token].entityType = "artist"
              /\ ~artists[tokens[req[r].token].artistId].isActive
              /\ artists[tokens[req[r].token].artistId].scanCount = 0

\* What C28 allows validity and the token update to depend on: the kind,
\* isUsed, expiresAt and the clock (and, for the update, the request).
ValidByTokenAlone(d, t) ==
    /\ ~(d.type = "one-time" /\ d.isUsed)
    /\ ~(d.type = "temporary" /\ d.expiresAt < t)

UsedByTokenAlone(d, request, t) ==
    [f \in DOMAIN d |->
        IF f = "accessCount" THEN d.accessCount + 1
        ELSE IF f = "lastAccessedAt" THEN t
        ELSE IF f = "ipAddress" /\ request.ipAddress # NoIp
             THEN request.ipAddress
        ELSE IF f = "userAgent" THEN request.userAgent
        ELSE IF f = "isUsed" /\ d.type = "one-time" THEN TRUE
        ELSE IF f = "usedAt" /\ d.type = "one-time" THEN t
        ELSE d[f]]

\* C28: whatever the state of the referenced entity (active, disabled or
\* deleted), verifyAndUse accepts a stored token exactly when its kind,
\* isUsed, expiresAt and the clock allow it, isValid() says the same, and
\* the record it saves is the one those values and the request determine.
C28_ValidityIgnoresEntity ==
    [][/\ \A tok \in TokenStrs :
            tokens[tok] # NoDoc =>
                IsValid(tokens[tok], now) = ValidByTokenAlone(tokens[tok], now)
       /\ \A r \in Reqs :
            (pc[r] = "findOne" /\ pc'[r] # "findOne"
                /\ tokens[req[r].token] # NoDoc) =>
                /\ tokens' = tokens
                /\ IF ValidByTokenAlone(tokens[req[r].token], now)
                   THEN /\ pc'[r] = "save"
                        /\ tdoc'[r] = UsedByTokenAlone(tokens[req[r].token],
                                                       req[r], now)
                   ELSE pc'[r] = "done" /\ resp'[r].status = 403
       /\ \A r \in Reqs :
            (pc[r] = "save" /\ pc'[r] # "save") =>
                /\ pc'[r] = "entity"
                /\ tokens'[req[r].token] = tdoc[r]]_vars

\* The same token was resolved while its entity was active (200) and again
\* after the entity was deleted or disabled (404): both uses are counted.
C28_Witness ==
    \E r, q \in Reqs :
        /\ r < q /\ req[q] # NoDoc /\ req[q].token = req[r].token
        /\ pc[r] = "done" /\ resp[r].status = 200
        /\ pc[q] = "done" /\ resp[q].status = 404
        /\ tokens[req[r].token].accessCount = 2

\* C29: a factory call with a valid entityType always returns a created
\* token, also when the generated string is already stored (it retries with
\* a fresh one), and no call replaces a stored token.
C29_CreationAlwaysSucceeds ==
    [][/\ \A r \in Reqs :
            (pc[r] = "idle" /\ pc'[r] = "done"
                /\ req'[r].entityType \in {"student", "artist"}) =>
                /\ resp'[r].created
                /\ tokens'[resp'[r].token] # NoDoc
                /\ tokens' # tokens
       /\ \A tok \in TokenStrs :
            tokens[tok] # NoDoc => tokens'[tok] = tokens[tok]]_vars

\* C30: every stored token has exactly one of studentId / artistId, and it
\* is the one its entityType selects.
C30_OneEntityRef ==
    \A tok \in TokenStrs :
        tokens[tok] # NoDoc =>
            \/ /\ tokens[tok].entityType = "student"
               /\ tokens[tok].studentId # NoId
               /\ tokens[tok].artistId = NoId
            \/ /\ tokens[tok].entityType = "artist"
               /\ tokens[tok].artistId # NoId
               /\ tokens[tok].studentId = NoId

\* A student token and an artist token are stored, and the call that
\* passed 24 as entityType was refused by validation.
C30_Witness ==
    /\ \E tok \in TokenStrs :
          tokens[tok] # NoDoc /\ tokens[tok].entityType = "artist"
              /\ tokens[tok].type = "temporary"
    /\ \E r \in Reqs :
          /\ pc[r] = "done" /\ req[r].entityType = "24"
          /\ ~resp[r].created /\ resp[r].error = "ValidationError"
          /\ tokens[req[r].token] = NoDoc

\* isUsed only on a one-time token, usedAt set exactly when isUsed.
UsedFieldsOk(d) ==
    d # NoDoc =>
        /\ d.isUsed => d.type = "one-time"
        /\ (d.usedAt # NoDate) <=> d.isUsed

\* C31: isUsed is true only on one-time tokens, usedAt is set exactly when
\* isUsed is, a record that is used stays used, and resolutions never mark a
\* permanent or temporary token used.
C31_UsedOnlyOneTime ==
    [][\A tok \in TokenStrs :
          /\ UsedFieldsOk(tokens[tok])
          /\ UsedFieldsOk(tokens'[tok])
          /\ (tokens[tok] # NoDoc /\ tokens[tok].isUsed
                 /\ tokens'[tok] # NoDoc) => tokens'[tok].isUsed]_vars

\* A one-time token that one request consumed and that refused a second.
C31_Witness ==
    /\ tokens["tokA"] # NoDoc /\ tokens["tokA"].type = "one-time"
    /\ tokens["tokA"].isUsed /\ tokens["tokA"].usedAt # NoDate
    /\ \E r \in Reqs : pc[r] = "done" /\ resp[r].status = 200
    /\ \E r \in Reqs : pc[r] = "done" /\ resp[r].status = 403

PurgedOnlyExpired ==
    [][\A tok \in TokenStrs :
          /\ (tokens[tok] # NoDoc /\ tokens[tok].type # "temporary")
                => (tokens[tok].expiresAt = NoDate /\ tokens'[tok] # NoDoc)
          /\ (tokens[tok] # NoDoc /\ tokens'[tok] = NoDoc)
                => /\ tokens[tok].type = "temporary"
                   /\ tokens[tok].expiresAt # NoDate
                   /\ tokens[tok].expiresAt < now]_vars

ExpiredEventuallyPurged ==
    \A tok \in TokenStrs :
        (tokens[tok] # NoDoc /\ tokens[tok].type = "temporary"
            /\ tokens[tok].expiresAt < now) ~> (tokens[tok] = NoDoc)

\* C32: the expiry purge removes only temporary tokens whose expiresAt has
\* passed; permanent and one-time tokens have no expiresAt and are never
\* removed, an unexpired temporary token is never removed, and every
\* expired temporary token is eventually removed.
C32_PurgeOnlyExpiredTemporary == PurgedOnlyExpired /\ ExpiredEventuallyPurged

\* The temporary tokA was resolved, then expired and was purged (a later
\* request found nothing) while the permanent tokB is still stored.
C32_Witness ==
    /\ tokens["tokA"] = NoDoc
    /\ tokens["tokB"] # NoDoc /\ tokens["tokB"].expiresAt = NoDate
    /\ now > 0
    /\ \E r, q \in Reqs :
          /\ pc[r] = "done" /\ resp[r].status = 200
          /\ pc[q] = "done" /\ resp[q].status = 403
          /\ resp[q].message = "Invalid token"

\* C33: the stored scanHistory of a student never holds more than
\* ScanHistoryCap entries, also when recordScan calls on the student overlap.
C33_HistoryCapUnderOverlap ==
    \A id \in StudentIds :
        students[id] # NoDoc =>
            Len(students[id].scanHistory) <= ScanHistoryCap

\* C34: a stored endTime never changes again and an inactive session never
\* becomes active again, whatever the interleaving of end requests with
\* each other and with cleanupInactiveSessions.
C34_EndTimeWrittenOnce ==
    [][\A s \in sessions :
          \E s2 \in sessions' :
              /\ s2.sessionId = s.sessionId
              /\ s.endTime # NoDate => s2.endTime = s.endTime
              /\ ~s.isActive => ~s2.isActive]_vars

\* C35: for every stored token and every time, isValid() is true exactly
\* when verifyAndUse would accept the token at that time; both refuse only
\* a used one-time token and a temporary token whose expiresAt is earlier
\* than now.
C35_IsValidAgreesWithVerify ==
    \A tok \in TokenStrs :
        tokens[tok] # NoDoc =>
            /\ IsValid(tokens[tok], now) <=> Verdict(tokens[tok], now) = "ok"
            /\ ~IsValid(tokens[tok], now) <=>
                  \/ tokens[tok].type = "one-time" /\ tokens[tok].isUsed
                  \/ tokens[tok].type = "temporary"
                        /\ tokens[tok].expiresAt < now

\* A temporary token that was resolved before it expired and refused
\* afterwards, in a state where isValid() is false.
C35_Witness ==
    /\ tokens["tokA"] # NoDoc /\ tokens["tokA"].type = "temporary"
    /\ ~IsValid(tokens["tokA"], now)
    /\ \E r, q \in Reqs :
          /\ pc[r] = "done" /\ resp[r].status \in {200, 404}
          /\ pc[q] = "done" /\ resp[q].status = 403
          /\ resp[q].message = "Token has expired"

\* C36: a resolution refused for an unknown, used or expired token changes
\* no stored token record, and the save of a successful resolution changes
\* no record but the resolved token's.
C36_ResolutionFrame ==
    [][\A r \in Reqs :
          (pc[r] \in {"findOne", "save"} /\ pc'[r] # pc[r]) =>
              IF pc'[r] = "done"
              THEN resp'[r].status = 403 /\ tokens' = tokens
              ELSE \A other \in TokenStrs \ {req[r].token} :
                      tokens'[other] = tokens[other]]_vars

\* tokA was resolved once and refused once; tokB is as it was created.
C36_Witness ==
    /\ \E r, q \in Reqs :
          /\ pc[r] = "done" /\ resp[r].status = 200
          /\ pc[q] = "done" /\ resp[q].status = 403
    /\ tokens["tokA"] # NoDoc /\ tokens["tokA"].accessCount = 1
    /\ tokens["tokB"] # NoDoc /\ tokens["tokB"].accessCount = 0
    /\ tokens["tokB"].lastAccessedAt = NoDate

\* C37: generateShareLink stores a temporary token of entityType 'student'
\* with the student's studentId that expires 24 hours after its creation,
\* and returns a URL that ends in that token.
C37_ShareLinkCreatesToken ==
    [][\A r \in Reqs :
          (pc[r] = "idle" /\ pc'[r] = "done"
              /\ req'[r].op = "generateShareLink"
              /\ tokens[req'[r].token] = NoDoc) =>
              /\ resp'[r].created
              /\ resp'[r].url = "http://localhost:5173/p/" \o req'[r].token
              /\ tokens'[req'[r].token] # NoDoc
              /\ tokens'[req'[r].token].type = "temporary"
              /\ tokens'[req'[r].token].entityType = "student"
              /\ tokens'[req'[r].token].studentId = req'[r].studentId
              /\ tokens'[req'[r].token].expiresAt
                    = now + 24 * TicksPerHour]_vars

\* A step of OtpSpec that is a call of the OTP module, not a clock tick.
OtpCallStep(op) == now' = now /\ otpCall' # NoDoc /\ otpCall'.op = op

\* C38: consumeOtp returns true only for the code currently stored under
\* the email's key (lower case, trimmed) and removes it, so that every
\* later consumeOtp for that email returns false until a new setOtp; setOtp
\* replaces the code stored for the email; other emails are not touched.
C38_OtpSingleUse ==
    [][LET c == otpCall'
           k == Key(c.email)
       IN  /\ (OtpCallStep("consumeOtp") /\ c.value) =>
                 /\ k \in OtpKeys /\ otpStore[k] # NoEntry
                 /\ otpStore[k].otp = Trim(c.otp)
                 /\ otpStore'[k] = NoEntry
           /\ (OtpCallStep("consumeOtp")
                  /\ (k \notin OtpKeys \/ otpStore[k] = NoEntry)) =>
                 ~c.value /\ otpStore' = otpStore
           /\ (OtpCallStep("setOtp") /\ k # "") =>
                 otpStore'[k].otp = c.otp
           /\ (OtpCallStep("setOtp") \/ OtpCallStep("consumeOtp")) =>
                 \A j \in OtpKeys \ {k} : otpStore'[j] = otpStore[j]]_vars

\* The code set for a@x.io was consumed under another spelling of the
\* address, and the entry is gone.
C38_Witness ==
    /\ otpCall # NoDoc /\ otpCall.op = "consumeOtp"
    /\ otpCall.email = " A@X.io " /\ otpCall.otp = " 123456 "
    /\ otpCall.value
    /\ otpStore["a@x.io"] = NoEntry
    /\ otpStore["b@x.io"] # NoEntry

\* C39: setOtp stamps the entry with expiresAt = now + OTP_EXPIRY_MS (ten
\* minutes); consumeOtp accepts and getOtp returns a code only while now is
\* not later than expiresAt; an expired entry met with its own code is
\* removed; a wrong code leaves the entry where it is.
C39_OtpExpires ==
    [][LET c == otpCall'
           k == Key(c.email)
           entry == IF k \in OtpKeys THEN otpStore[k] ELSE NoEntry
       IN  /\ (OtpCallStep("setOtp") /\ k # "") =>
                 otpStore'[k].expiresAt = DateNow + 10 * 60 * 1000
           /\ (OtpCallStep("consumeOtp") /\ c.value) =>
                 entry # NoEntry /\ ~(DateNow > entry.expiresAt)
           /\ (OtpCallStep("getOtp") /\ c.value # "null") =>
                 /\ entry # NoEntry /\ ~(DateNow > entry.expiresAt)
                 /\ c.value = entry.otp
           /\ (OtpCallStep("consumeOtp") /\ entry # NoEntry
                  /\ entry.otp = Trim(c.otp) /\ DateNow > entry.expiresAt) =>
                 ~c.value /\ otpStore'[k] = NoEntry
           /\ (OtpCallStep("consumeOtp") /\ entry # NoEntry
                  /\ entry.otp # Trim(c.otp)) =>
                 ~c.value /\ otpStore' = otpStore]_vars

\* The latest consumeOtp for a@x.io was refused and that key has no entry,
\* while the entry of b@x.io, past its expiresAt, is still stored.
C39_Witness ==
    /\ otpCall # NoDoc /\ otpCall.op = "consumeOtp" /\ ~otpCall.value
    /\ Key(otpCall.email) = "a@x.io"
    /\ otpStore["a@x.io"] = NoEntry
    /\ otpStore["b@x.io"] # NoEntry
    /\ DateNow > otpStore["b@x.io"].expiresAt

====
